---- MODULE Spec2Model ----
(***************************************************************************)
(* Transfer core of proxishare: FileSender::send_file (transfer/sender.rs),*)
(* FileReceiver::handle_transfer (transfer/receiver.rs), the transfer      *)
(* registry and its pause / resume / cancel commands (lib.rs).             *)
(*                                                                         *)
(* Three specifications:                                                   *)
(*   Spec      - one transfer between a sender process and a receiver      *)
(*               process, each with its own registry, over one QUIC        *)
(*               bidirectional stream.  File content is a sequence of      *)
(*               cells, one cell standing for Block bytes.                 *)
(*   LiveSpec  - the steps of Spec for one transfer of a full-length file, *)
(*               with the fairness that the scheduling of the two tasks    *)
(*               gives.                                                    *)
(*   ChunkSpec - the sender's read loop on byte counts alone, for file     *)
(*               sizes around the thresholds of calculate_chunk_size.      *)
(***************************************************************************)
EXTENDS Integers, Sequences, FiniteSets, TLC

----------------------------------------------------------------------------
(* Bounds of the model *)

\* longest source file of Spec, in cells of Block bytes
MaxBlocks == 2
\* most pause / resume / cancel commands issued by the two UIs together
\* messages a peer writes: during the completion wait (AckSpec), to a
\* receiver (PeerSpec)
MaxInbox == 3

MaxCmds == 2

----------------------------------------------------------------------------
(* Program constants *)

MiB == 1024 * 1024
MAX_CHUNK_SIZE == 4 * 1024 * 1024
MIN_CHUNK_SIZE == 64 * 1024
DEFAULT_CHUNK_SIZE == 1 * 1024 * 1024

\* tokio::fs::File hands at most this many bytes to one blocking read, so a
\* single `file.read(&mut buffer)` never returns more, whatever the buffer
MaxBufSize == 2 * 1024 * 1024

\* bytes one cell of file content stands for in Spec
Block == 64 * 1024

\* the transfer id of the modelled transfer, another id, and the initial
\* (empty) current_transfer_id of a receiver
TID == "t1"
OtherId == "t2"
NoId == ""
Keys == {NoId, TID, OtherId}

InProgress == "InProgress"
Paused == "Paused"
Cancelled == "Cancelled"
Completed == "Completed"
Failed == "Failed"
\* no entry under that key
Absent == "Absent"

----------------------------------------------------------------------------
(* Pure functions *)

Min(a, b) == IF a < b THEN a ELSE b

calculate_chunk_size(file_size) ==
    IF file_size < 1024 * 1024 THEN MIN_CHUNK_SIZE
    ELSE IF file_size < 100 * 1024 * 1024 THEN DEFAULT_CHUNK_SIZE
    ELSE MAX_CHUNK_SIZE

\* variant: the read that reaches the end of the file reports end of file
FileRead_StopShort(bufLen, remaining) ==
    IF remaining <= Min(bufLen, MaxBufSize) THEN 0 ELSE Min(bufLen, MaxBufSize)

\* n of `let n = file.read(&mut buffer).await?` : the bytes left in the file,
\* capped by the buffer and by the per-read cap of the runtime; 0 at end of file
FileRead(bufLen, remaining) == Min(Min(bufLen, MaxBufSize), remaining)

\* BLAKE3, as an injective function of the hashed content
Blake3(data) == <<"blake3", data>>

\* variant: the insert replaces the map
Inserted_Replace(registry, id) ==
    [k \in DOMAIN registry |-> IF k = id THEN InProgress ELSE Absent]

\* transfers.insert(id, TransferStatus::InProgress)
Inserted(registry, id) == [registry EXCEPT ![id] = InProgress]

\* registry.get(id).cloned().unwrap_or(InProgress)
GetStatus(registry, id) ==
    IF registry[id] = Absent THEN InProgress ELSE registry[id]

\* the cells of f from byte offset off, at most len bytes
Slice(f, off, len) ==
    SubSeq(f, (off \div Block) + 1, (off + len) \div Block)

\* variant: every write starts at the head of the file
WriteAt_Rewind(content, cur, data) ==
    [i \in 1..(IF Len(data) > Len(content) THEN Len(data) ELSE Len(content)) |->
        IF i <= Len(data) THEN data[i] ELSE content[i]]

\* write_all(data) at cursor cur of a file holding content
WriteAt(content, cur, data) ==
    [i \in 1..(IF cur + Len(data) > Len(content) THEN cur + Len(data) ELSE Len(content)) |->
        IF i > cur /\ i <= cur + Len(data) THEN data[i - cur] ELSE content[i]]

\* fs2 allocate(size): the file is grown with zero cells to size, never shrunk
Allocate(content, cells) ==
    [i \in 1..(IF cells > Len(content) THEN cells ELSE Len(content)) |->
        IF i <= Len(content) THEN content[i] ELSE 0]

(* Messages (transfer/protocol.rs, MessageType) *)
FileOffer(id, size, hash, cs) ==
    [type |-> "FileOffer", transfer_id |-> id, size |-> size, hash |-> hash, chunk_size |-> cs]
ChunkData(id, idx, data, hash) ==
    [type |-> "ChunkData", transfer_id |-> id, chunk_index |-> idx, data |-> data, chunk_hash |-> hash]
Control(t, id) == [type |-> t, transfer_id |-> id]

HistorySync(records) == [type |-> "HistorySync", records |-> records]

\* what is left of a frame whose first bytes went with a dropped read: the
\* bytes that follow are taken for a length prefix and a message, and do not
\* decode
Garbled == [type |-> "Garbled"]

\* lib.rs send_file, `let status = match &send_result`: the text of the error
\* holds "cancelled" only for "Transfer cancelled by user"
history_status(send_result) ==
    IF send_result = "Ok" THEN "completed"
    ELSE IF send_result = "CANCELLED" THEN "cancelled"
    ELSE "failed"

----------------------------------------------------------------------------
VARIABLES
    \* environment
    src,            \* content of the source file
    conn,           \* "none" | "up" | "cut" | "closedS" | "closedR"
    s2r,            \* messages written by the sender, not yet read
    r2s,            \* messages written by the receiver, not yet read
    corrupted,      \* a bit flip was injected into a ChunkData in flight
    cmds,           \* pause / resume / cancel commands issued so far
    cancelAt,       \* the process ("S", "R") whose registry entry of the transfer
                    \* was first set to Cancelled while its task was in its
                    \* message or chunk loop; "none" before
    rpart,          \* the pending read_message of the receiver has taken the
                    \* length prefix (and maybe part of the payload) of the head
                    \* of s2r off the stream
    \* sender process
    transfersS,     \* registry of the sending process
    spc,            \* position of send_file
    sres,           \* result of send_file
    chunk_index,
    total_sent,
    fpos,           \* cursor of the opened source file, in bytes
    s_last_status,
    sWrites,        \* write_message calls made by the sender, in order
    ackRead,        \* the sender has read the matching TransferCompleteAck
    histS,          \* status of the row of the transfer in the sender's history
    sEvents,        \* "transfer-progress" events emitted by send_file, in order
    \* receiver process
    transfersR,     \* registry of the receiving process
    rpc,            \* position of handle_transfer
    rres,           \* result of handle_transfer
    file,           \* the receiver holds an open File
    destExists,     \* <save_dir>/<name> exists
    dest,           \* its content
    wpos,           \* cursor of the open File, in cells
    bytes_received,
    current_transfer_id,
    current_file_size,
    r_last_status,
    rWrites,        \* write_message calls made by the receiver, in order
    spaceParent,    \* available_space(save_directory.parent())
    spaceSave,      \* available space of the save directory itself
    histR,          \* status of the row of the transfer in the receiver's history
    accepted,       \* payloads of the ChunkData verified and written since the
                    \* offer, concatenated
    rEffects,       \* what the TransferComplete arm of the receiver has done,
                    \* in the order it did it
    \* ChunkSpec
    cSize,          \* file size in bytes
    cPos,           \* bytes read so far
    cLens,          \* lengths of the ChunkData emitted so far
    cDone,          \* the read loop has seen end of file
    \* AckSpec
    aInbox,         \* messages the peer has written on the stream, not yet read
    aSince,         \* seconds since the current read_message was started
    aTotal,         \* seconds since the write half was closed
    aRes,           \* "waiting", or the result of send_file
    aSynced,        \* records stored from the HistorySync messages read
    \* RegSpec
    transfers,      \* state.transfers of one process
    regSending,     \* ids whose send_file is in its chunk loop
    regRecvRun,     \* a receiver task of the process is in its message loop
    regRecv,        \* its current_transfer_id
    regLast,        \* the last operation on the registry: what, for which id
                    \* (a task's own transfer, a command's argument), and what
                    \* a command returned
    \* FrameSpec
    fMsgs,          \* serialized messages handed to write_message, in order
    fNext,          \* index of the next one to write
    fWire,          \* bytes written to the stream, not yet delivered
    fBuf,           \* bytes delivered to the reading side, not yet read
    fPhase,         \* the read_exact read_message is in: "len" or "payload"
    fNeed,          \* bytes that read_exact has to fill
    fGot,           \* bytes it has so far
    fOut,           \* payloads returned by the read_message calls, in order
    fShort,         \* some read got fewer bytes than read_exact still needed
    \* ListenSpec
    lLoop,          \* the accept loop of start_listening: "accepting" or "stopped"
    lAccepted,      \* connections the loop has accepted so far
    lTask,          \* per connection: position of the task spawned for it
    lName,          \* per connection: the file name its receiver was offered
    lDir,           \* the save directory: per file name, the task that wrote it last
    \* DiscSpec
    dNow,           \* Utc::now().timestamp(), seconds since discovery started
    devices,        \* discovered_devices: id -> Device, for the ids in the table
    dLoop,          \* the mDNS event loop task: "running" or "panicked"
    dPasses,        \* steps the cleanup task has taken
    dLast,          \* the last thing done to the table: what, and for which id
    \* ReachSpec
    rDevice,        \* the Device given to find_reachable_ip
    rUp,            \* addresses that accept a TCP connection on the device's port
    rPc,            \* position in find_reachable_ip
    rIdx,           \* index into all_ips of the next address to try
    rResult         \* what find_reachable_ip returned

envVars == <<src, conn, s2r, r2s, corrupted, cmds, cancelAt, rpart>>
sndVars == <<transfersS, spc, sres, chunk_index, total_sent, fpos, s_last_status, sWrites,
             ackRead, histS, sEvents>>
rcvVars == <<transfersR, rpc, rres, file, destExists, dest, wpos, bytes_received,
             current_transfer_id, current_file_size, r_last_status, rWrites,
             spaceParent, spaceSave, histR, accepted, rEffects>>
chunkVars == <<cSize, cPos, cLens, cDone>>
ackVars == <<aInbox, aSince, aTotal, aRes, aSynced>>
regVars == <<transfers, regSending, regRecvRun, regRecv, regLast>>
frameVars == <<fMsgs, fNext, fWire, fBuf, fPhase, fNeed, fGot, fOut, fShort>>
listenVars == <<lLoop, lAccepted, lTask, lName, lDir>>
discVars == <<dNow, devices, dLoop, dPasses, dLast>>
reachVars == <<rDevice, rUp, rPc, rIdx, rResult>>
sideVars == <<regVars, frameVars, listenVars, discVars, reachVars>>
coreVars == <<envVars, sndVars, rcvVars, chunkVars, ackVars>>
regRest == <<coreVars, frameVars, listenVars, discVars, reachVars>>
frameRest == <<coreVars, regVars, listenVars, discVars, reachVars>>
listenRest == <<coreVars, regVars, frameVars, discVars, reachVars>>
discRest == <<coreVars, regVars, frameVars, listenVars, reachVars>>
reachRest == <<coreVars, regVars, frameVars, listenVars, discVars>>
vars == <<envVars, sndVars, rcvVars, chunkVars, ackVars, sideVars>>

file_size == Len(src) * Block

\* source files: cell i holds i, so any loss, repeat or reorder shows
Sources == {[i \in 1..n |-> i] : n \in 0..MaxBlocks}
\* what may be in the save directory under the offered name before the offer
OldFiles == {<<>>, <<7>>, [i \in 1..(MaxBlocks + 1) |-> 7]}
Spaces == {0, Block, (MaxBlocks + 1) * Block}

\* ids of the history rows a peer may send in a HistorySync
HistIds == {"h1", "h2"}

AckIdle ==
    /\ aInbox = <<>>
    /\ aSince = 0
    /\ aTotal = 0
    /\ aRes = "none"
    /\ aSynced = [id \in HistIds |-> "none"]

NoOp == [op |-> "none", id |-> NoId, ret |-> "none"]

RegIdle ==
    /\ transfers = [k \in Keys |-> Absent]
    /\ regSending = {}
    /\ regRecvRun = FALSE
    /\ regRecv = NoId
    /\ regLast = NoOp

FrameIdle ==
    /\ fMsgs = <<>>
    /\ fNext = 1
    /\ fWire = <<>>
    /\ fBuf = <<>>
    /\ fPhase = "len"
    /\ fNeed = 4
    /\ fGot = <<>>
    /\ fOut = <<>>
    /\ fShort = FALSE

\* connections that arrive in one run
MaxConns == 3

Conns == 1..MaxConns

\* file names that peers offer
FileNames == {"a.bin", "b.bin"}

ListenIdle ==
    /\ lLoop = "accepting"
    /\ lAccepted = 0
    /\ lTask = [i \in Conns |-> "none"]
    /\ lName = [i \in Conns |-> ""]
    /\ lDir = [n \in FileNames |-> 0]

\* the empty HashMap
NoDevices == [id \in {} |-> {}]

\* nothing done to the table yet
NoEvent == [op |-> "none", id |-> <<>>]

DiscIdle ==
    /\ dNow = 0
    /\ devices = NoDevices
    /\ dLoop = "running"
    /\ dPasses = 0
    /\ dLast = NoEvent

\* Option<String>::None
NoIp == [some |-> FALSE, ip |-> ""]

ReachIdle ==
    /\ rDevice = [ip |-> "", all_ips |-> <<>>]
    /\ rUp = {}
    /\ rPc = "idle"
    /\ rIdx = 1
    /\ rResult = NoIp

SideIdle == RegIdle /\ FrameIdle /\ ListenIdle /\ DiscIdle /\ ReachIdle

ChunkInit ==
    /\ cSize = 0
    /\ cPos = 0
    /\ cLens = <<>>
    /\ cDone = FALSE

Init ==
    /\ src \in Sources
    /\ conn = "none"
    /\ s2r = <<>>
    /\ r2s = <<>>
    /\ corrupted = FALSE
    /\ cmds = 0
    /\ cancelAt = "none"
    /\ rpart = FALSE
    /\ transfersS = [k \in Keys |-> Absent]
    /\ spc = "idle"
    /\ sres = "none"
    /\ chunk_index = 0
    /\ total_sent = 0
    /\ fpos = 0
    /\ s_last_status = InProgress
    /\ sWrites = <<>>
    /\ ackRead = FALSE
    /\ sEvents = <<>>
    /\ histS = "none"
    /\ transfersR = [k \in Keys |-> Absent]
    /\ rpc = "idle"
    /\ rres = "none"
    /\ file = FALSE
    /\ destExists \in BOOLEAN
    /\ dest \in (IF destExists THEN OldFiles ELSE {<<>>})
    /\ wpos = 0
    /\ bytes_received = 0
    /\ current_transfer_id = NoId
    /\ current_file_size = 0
    /\ r_last_status = InProgress
    /\ rWrites = <<>>
    /\ spaceParent \in Spaces
    /\ spaceSave \in Spaces
    /\ histR = "none"
    /\ accepted = <<>>
    /\ rEffects = <<>>
    /\ ChunkInit
    /\ AckIdle
    /\ SideIdle

----------------------------------------------------------------------------
(* The stream, seen from the sender *)

\* a write_message on a connection that is up reaches the peer; on a lost
\* connection the bytes go nowhere
SenderSent(m) == IF conn = "up" THEN Append(s2r, m) ELSE s2r

\* results of write_message(..).await : Ok on a live connection; on a lost
\* one either the error or, before the loss is noticed, still Ok
WriteResults == IF conn = "up" THEN {TRUE} ELSE {TRUE, FALSE}

\* send_file returns: the FileSender and its Connection are dropped
ConnAfterSenderEnd == IF conn = "up" THEN "closedS" ELSE conn

SenderEnds(result) ==
    /\ spc' = "done"
    /\ sres' = result
    /\ conn' = ConnAfterSenderEnd
    /\ histS' = history_status(result)

\* variant: TransferCancel is written but the `return Err(..)` is missing
SendCancelAndContinue ==
    /\ sWrites' = Append(sWrites, Control("TransferCancel", TID))
    /\ s2r' = SenderSent(Control("TransferCancel", TID))
    /\ spc' = "read"
    /\ UNCHANGED <<sres, conn, histS, s_last_status>>

\* the registry says Cancelled: TransferCancel is written (its result
\* ignored) and send_file returns "Transfer cancelled by user"
SendCancelAndReturn ==
    /\ sWrites' = Append(sWrites, Control("TransferCancel", TID))
    /\ s2r' = SenderSent(Control("TransferCancel", TID))
    /\ SenderEnds("CANCELLED")
    /\ UNCHANGED s_last_status

\* variant: the `while status == Paused` loop is missing
AfterCheck_NoWait(status) == "read"

\* where the status check leaves the loop body: into `while status == Paused`
\* or on to file.read
AfterCheck(status) == IF status = Paused THEN "paused" ELSE "read"

\* variant: the first arm lacks its pattern and guard, so that any message
\* but HistorySync counts as the acknowledgment
AckOutcome_AcceptAny(msg, transfer_id) ==
    IF msg.type = "HistorySync" THEN "continue" ELSE "Ok"

\* the match arms of the completion wait, for a message that was read
AckOutcome(msg, transfer_id) ==
    IF msg.type = "TransferCompleteAck" /\ msg.transfer_id = transfer_id THEN "Ok"
    ELSE IF msg.type = "HistorySync" THEN "continue"
    ELSE "PROTOCOL"

\* variant: the `break` after marking Completed is missing
AfterEof_NoBreak == "check"

\* n == 0: `break` leaves the chunk loop for the completion wait
AfterEof == "ack"

----------------------------------------------------------------------------
(* Sender: the send_file command and FileSender::send_file *)

\* lib.rs send_file: the id enters the registry as InProgress, then
\* TransferManager::send_file dials with a 10 s handshake timeout
SendFileCmd ==
    /\ spc = "idle"
    /\ transfersS' = Inserted(transfersS, TID)
    /\ \E connected \in BOOLEAN :
         IF connected
         THEN /\ conn' = "up"
              /\ spc' = "offer"
              /\ rpc' = "run"
              /\ sres' = sres
              /\ histS' = "in_progress"
         ELSE /\ conn' = conn
              /\ spc' = "done"
              /\ rpc' = rpc
              /\ sres' = "CONNECT"
              /\ histS' = history_status("CONNECT")
    /\ UNCHANGED <<src, s2r, r2s, corrupted, cmds, cancelAt, rpart>>
    /\ UNCHANGED <<chunk_index, total_sent, fpos, s_last_status, sWrites, ackRead, sEvents>>
    /\ UNCHANGED <<transfersR, rres, file, destExists, dest, wpos, bytes_received,
                   current_transfer_id, current_file_size, r_last_status, rWrites,
                   spaceParent, spaceSave, histR, accepted, rEffects>>
    /\ UNCHANGED <<chunkVars, ackVars, sideVars>>

\* 1. Send File Offer
SendOffer ==
    /\ spc = "offer"
    /\ LET offer == FileOffer(TID, file_size, Blake3(src), calculate_chunk_size(file_size))
       IN /\ sWrites' = Append(sWrites, offer)
          /\ s2r' = SenderSent(offer)
          /\ \E ok \in WriteResults :
               IF ok
               THEN /\ spc' = "check"
                    /\ UNCHANGED <<sres, conn, histS>>
               ELSE SenderEnds("IO")
    /\ UNCHANGED <<src, r2s, corrupted, cmds, cancelAt, rpart>>
    /\ UNCHANGED <<transfersS, chunk_index, total_sent, fpos, s_last_status, ackRead, sEvents>>
    /\ UNCHANGED rcvVars
    /\ UNCHANGED <<chunkVars, ackVars, sideVars>>

\* top of the chunk loop: read the registry, notify the receiver of a change
SenderCheck ==
    /\ spc = "check"
    /\ LET status == GetStatus(transfersS, TID)
       IN IF status # s_last_status
          THEN CASE status = Cancelled -> SendCancelAndReturn
                 [] status = Paused ->
                      /\ sWrites' = Append(sWrites, Control("TransferPause", TID))
                      /\ s2r' = SenderSent(Control("TransferPause", TID))
                      /\ s_last_status' = status
                      /\ spc' = AfterCheck(status)
                      /\ UNCHANGED <<sres, conn, histS>>
                 [] status = InProgress /\ s_last_status = Paused ->
                      /\ sWrites' = Append(sWrites, Control("TransferResume", TID))
                      /\ s2r' = SenderSent(Control("TransferResume", TID))
                      /\ s_last_status' = status
                      /\ spc' = AfterCheck(status)
                      /\ UNCHANGED <<sres, conn, histS>>
                 [] OTHER ->
                      /\ s_last_status' = status
                      /\ spc' = AfterCheck(status)
                      /\ UNCHANGED <<sWrites, s2r, sres, conn, histS>>
          ELSE /\ spc' = AfterCheck(status)
               /\ UNCHANGED <<sWrites, s2r, sres, conn, histS, s_last_status>>
    /\ UNCHANGED <<src, r2s, corrupted, cmds, cancelAt, rpart>>
    /\ UNCHANGED <<transfersS, chunk_index, total_sent, fpos, ackRead, sEvents>>
    /\ UNCHANGED rcvVars
    /\ UNCHANGED <<chunkVars, ackVars, sideVars>>

\* variant: the pause loop does not record the status it resumed on
ResumedLast_Kept(status) == s_last_status

\* last_status = status, after TransferResume was written in the pause loop
ResumedLast(status) == status

\* one round of `while status == Paused`: sleep 500 ms, read the registry
SenderPausePoll ==
    /\ spc = "paused"
    /\ LET status == GetStatus(transfersS, TID)
       IN CASE status = Cancelled -> SendCancelAndReturn
            [] status = InProgress ->
                 /\ sWrites' = Append(sWrites, Control("TransferResume", TID))
                 /\ s2r' = SenderSent(Control("TransferResume", TID))
                 /\ s_last_status' = ResumedLast(status)
                 /\ spc' = "read"
                 /\ UNCHANGED <<sres, conn, histS>>
            [] status = Paused ->
                 UNCHANGED <<sWrites, s2r, sres, conn, histS, s_last_status, spc>>
            [] OTHER ->
                 /\ spc' = "read"
                 /\ UNCHANGED <<sWrites, s2r, sres, conn, histS, s_last_status>>
    /\ UNCHANGED <<src, r2s, corrupted, cmds, cancelAt, rpart>>
    /\ UNCHANGED <<transfersS, chunk_index, total_sent, fpos, ackRead, sEvents>>
    /\ UNCHANGED rcvVars
    /\ UNCHANGED <<chunkVars, ackVars, sideVars>>

\* the "transfer-progress" payload, as far as the properties read it
TransferProgress(bytes_sent, total_bytes, status) ==
    [bytes_sent |-> bytes_sent, total_bytes |-> total_bytes, status |-> status]

\* variant: the event is built before total_sent is advanced
EventBytes_Before(sent, n) == sent

\* total_sent += n as u64, then bytes_sent: total_sent
EventBytes(sent, n) == sent + n

\* file.read; on n = 0 mark Completed, 3. Send Completion and finish the
\* stream; otherwise emit the chunk and advance
SenderRead ==
    /\ spc = "read"
    /\ LET n == FileRead(calculate_chunk_size(file_size), file_size - fpos)
           chunk_data == Slice(src, fpos, n)
           chunk_msg == ChunkData(TID, chunk_index, chunk_data, Blake3(chunk_data))
       IN IF n = 0
          THEN /\ transfersS' = [transfersS EXCEPT ![TID] = Completed]
               /\ sWrites' = Append(sWrites, Control("TransferComplete", TID))
               /\ s2r' = SenderSent(Control("TransferComplete", TID))
               /\ \E ok \in WriteResults :
                    IF ok
                    THEN /\ spc' = AfterEof
                         /\ UNCHANGED <<sres, conn, histS>>
                    ELSE SenderEnds("IO")
               /\ UNCHANGED <<chunk_index, total_sent, fpos, sEvents>>
          ELSE /\ fpos' = fpos + n
               /\ sWrites' = Append(sWrites, chunk_msg)
               /\ s2r' = SenderSent(chunk_msg)
               /\ \E ok \in WriteResults :
                    IF ok
                    THEN /\ total_sent' = total_sent + n
                         /\ chunk_index' = chunk_index + 1
                         /\ sEvents' = Append(sEvents,
                                TransferProgress(EventBytes(total_sent, n), file_size,
                                                 "in_progress"))
                         /\ spc' = "check"
                         /\ UNCHANGED <<sres, conn, histS>>
                    ELSE /\ SenderEnds("IO")
                         /\ UNCHANGED <<total_sent, chunk_index, sEvents>>
               /\ UNCHANGED transfersS
    /\ UNCHANGED <<src, r2s, corrupted, cmds, cancelAt, rpart>>
    /\ UNCHANGED <<s_last_status, ackRead>>
    /\ UNCHANGED rcvVars
    /\ UNCHANGED <<chunkVars, ackVars, sideVars>>

\* 5. Wait for acknowledgment: one read_message under the 30 s timeout
SenderAck ==
    /\ spc = "ack"
    /\ \/ \* a message is read
          /\ r2s # <<>>
          /\ conn \in {"up", "closedR"}
          /\ r2s' = Tail(r2s)
          /\ ackRead' = (ackRead \/ Head(r2s) = Control("TransferCompleteAck", TID))
          /\ LET outcome == AckOutcome(Head(r2s), TID)
             IN IF outcome = "continue"
                THEN UNCHANGED <<spc, sres, conn, histS, sEvents>>
                ELSE /\ SenderEnds(outcome)
                     \* Emit final progress as completed
                     /\ sEvents' = IF outcome = "Ok"
                                   THEN Append(sEvents,
                                          TransferProgress(file_size, file_size, "completed"))
                                   ELSE sEvents
       \/ \* read_message fails: the connection is lost or was closed
          /\ conn # "up"
          /\ SenderEnds("IO")
          /\ UNCHANGED <<r2s, ackRead, sEvents>>
       \/ \* nothing arrives for 30 s
          /\ SenderEnds("ACK_TIMEOUT")
          /\ UNCHANGED <<r2s, ackRead, sEvents>>
    /\ UNCHANGED <<src, s2r, corrupted, cmds, cancelAt, rpart>>
    /\ UNCHANGED <<transfersS, chunk_index, total_sent, fpos, s_last_status, sWrites>>
    /\ UNCHANGED rcvVars
    /\ UNCHANGED <<chunkVars, ackVars, sideVars>>

----------------------------------------------------------------------------
(* The stream, seen from the receiver *)

ReceiverSent(m) == IF conn = "up" THEN Append(r2s, m) ELSE r2s

\* handle_transfer returns: the FileReceiver and its Connection are dropped
\* (or, on success, the connection is closed explicitly)
ConnAfterReceiverEnd == IF conn = "up" THEN "closedR" ELSE conn

ReceiverEnds(result) ==
    /\ rpc' = "done"
    /\ rres' = result
    /\ conn' = ConnAfterReceiverEnd

\* cells by which a write of data at cursor cur grows a file holding content
Growth(content, cur, data) ==
    IF cur + Len(data) > Len(content) THEN cur + Len(data) - Len(content) ELSE 0

----------------------------------------------------------------------------
(* Receiver: FileReceiver::handle_transfer *)

\* check_disk_space(required_bytes): the space asked for is that of the
\* PARENT of the save directory
check_disk_space(required_bytes) == ~(spaceParent < required_bytes)

OnFileOffer(msg) ==
    IF ~check_disk_space(msg.size)
    THEN /\ ReceiverEnds("DISK_SPACE")
         /\ UNCHANGED <<transfersR, file, destExists, dest, wpos, bytes_received,
                        current_transfer_id, current_file_size, r_last_status,
                        rWrites, r2s, spaceSave, histR, accepted, rEffects>>
    ELSE /\ current_transfer_id' = msg.transfer_id
         /\ current_file_size' = msg.size
         /\ transfersR' = Inserted(transfersR, msg.transfer_id)
         \* OpenOptions: write(true).create(true) - no truncate
         /\ destExists' = TRUE
         /\ wpos' = 0
         \* let _ = std_file.allocate(metadata.size): fails without room
         /\ \E allocated \in BOOLEAN :
              LET grown == Allocate(dest, msg.size \div Block)
                  need == (Len(grown) - Len(dest)) * Block
              IN IF allocated /\ need <= spaceSave
                 THEN /\ dest' = grown
                      /\ spaceSave' = spaceSave - need
                 ELSE UNCHANGED <<dest, spaceSave>>
         /\ file' = TRUE
         \* db.record_transfer(..): the row starts as 'in_progress'
         /\ histR' = "in_progress"
         /\ accepted' = <<>>
         /\ UNCHANGED <<rpc, rres, conn, bytes_received, r_last_status, rWrites, r2s,
                        rEffects>>

\* variant: the chunk is not verified
ChunkVerified_Skip(data, chunk_hash) == TRUE

\* blake3::hash(&data).to_hex() compared with chunk_hash
ChunkVerified(data, chunk_hash) == Blake3(data) = chunk_hash

\* variant: the partial file is removed when the chunk is refused
LeftInPlace_Removed(content) == <<>>

\* `return Err(..)`: the File is dropped; nothing deletes or truncates the path
LeftInPlace(content) == content

OnChunkData(msg) ==
    IF file
    THEN IF ~ChunkVerified(msg.data, msg.chunk_hash)
         THEN /\ ReceiverEnds("CHUNK_HASH")
              /\ dest' = LeftInPlace(dest)
              /\ UNCHANGED <<wpos, bytes_received, spaceSave, accepted>>
         ELSE LET need == Growth(dest, wpos, msg.data) * Block
              IN IF need > spaceSave
                 THEN \* f.write_all(&data).await? on a full disk
                      /\ ReceiverEnds("IO")
                      /\ UNCHANGED <<dest, wpos, bytes_received, spaceSave, accepted>>
                 ELSE /\ dest' = WriteAt(dest, wpos, msg.data)
                      /\ wpos' = wpos + Len(msg.data)
                      /\ bytes_received' = bytes_received + Len(msg.data) * Block
                      /\ spaceSave' = spaceSave - need
                      /\ accepted' = accepted \o msg.data
                      /\ UNCHANGED <<rpc, rres, conn>>
    ELSE UNCHANGED <<rpc, rres, conn, dest, wpos, bytes_received, spaceSave, accepted>>

\* variant: the control messages of the sender leave the registry as it is
Mirror_None(registry, id, status) == registry

\* transfers.insert(current_transfer_id.clone(), status)
Mirror(registry, id, status) == [registry EXCEPT ![id] = status]

\* variant: the control arms leave last_status as it was
MirroredLast_Kept(status) == r_last_status

\* last_status = crate::TransferStatus::Paused / ::InProgress
MirroredLast(status) == status

OnControl(msg) ==
    CASE msg.type = "TransferPause" ->
           /\ transfersR' = Mirror(transfersR, current_transfer_id, Paused)
           /\ r_last_status' = MirroredLast(Paused)
           /\ UNCHANGED <<rpc, rres, conn>>
      [] msg.type = "TransferResume" ->
           /\ transfersR' = Mirror(transfersR, current_transfer_id, InProgress)
           /\ r_last_status' = MirroredLast(InProgress)
           /\ UNCHANGED <<rpc, rres, conn>>
      [] msg.type = "TransferCancel" ->
           /\ transfersR' = Mirror(transfersR, current_transfer_id, Cancelled)
           /\ ReceiverEnds("CANCELLED_BY_PEER")
           /\ UNCHANGED r_last_status

\* variant: the `break` after the acknowledgment is missing
AfterAck_Loop == UNCHANGED <<rpc, rres, conn>>

\* the ack is written: finish the stream, close the connection and `break`
AfterAck == ReceiverEnds("Ok")

\* variant: the acknowledgment is written before the file is flushed and the
\* history updated
CompleteEffects_AckFirst(had_file, size, written) ==
    <<[op |-> "ack"]>>
    \o (IF had_file THEN <<[op |-> "flush"]>> ELSE <<>>)
    \o <<[op |-> "history", status |-> "completed", bytes |-> size]>>
    \o (IF written THEN <<[op |-> "finish"], [op |-> "close"]>> ELSE <<>>)

\* the TransferComplete arm in program order: flush the file if one is open,
\* update_transfer_status(.., "completed", current_file_size), write the ack
\* and, if it was written, finish the send stream and close the connection
CompleteEffects(had_file, size, written) ==
    (IF had_file THEN <<[op |-> "flush"]>> ELSE <<>>)
    \o <<[op |-> "history", status |-> "completed", bytes |-> size]>>
    \o <<[op |-> "ack"]>>
    \o (IF written THEN <<[op |-> "finish"], [op |-> "close"]>> ELSE <<>>)

OnTransferComplete(msg) ==
    LET ack == Control("TransferCompleteAck", msg.transfer_id)
    IN \* file.take() and flush
       /\ file' = FALSE
       \* db.update_transfer_status(&transfer_id, "completed", ..): an UPDATE,
       \* which changes the row if there is one
       /\ histR' = IF histR # "none" /\ msg.transfer_id = current_transfer_id
                   THEN "completed" ELSE histR
       /\ rWrites' = Append(rWrites, ack)
       /\ r2s' = ReceiverSent(ack)
       /\ \E ok \in WriteResults :
            /\ rEffects' = rEffects \o CompleteEffects(file, current_file_size, ok)
            /\ IF ok THEN AfterAck ELSE ReceiverEnds("IO")

\* read_message is pending in select! and has taken the first bytes of the
\* next frame: the length prefix, or the prefix and part of the payload
RecvPartial ==
    /\ rpc = "run"
    /\ s2r # <<>>
    /\ conn \in {"up", "closedS"}
    /\ ~rpart
    /\ Head(s2r).type # "Garbled"
    /\ rpart' = TRUE
    /\ UNCHANGED <<src, conn, s2r, r2s, corrupted, cmds, cancelAt>>
    /\ UNCHANGED sndVars
    /\ UNCHANGED rcvVars
    /\ UNCHANGED <<chunkVars, ackVars, sideVars>>

\* the read_message branch of select!: one whole message is read and handled
RecvMessage ==
    /\ rpc = "run"
    /\ s2r # <<>>
    /\ conn \in {"up", "closedS"}
    /\ s2r' = Tail(s2r)
    /\ rpart' = FALSE
    /\ LET msg == Head(s2r)
       IN CASE msg.type = "FileOffer" -> OnFileOffer(msg)
            [] msg.type = "ChunkData" ->
                 /\ OnChunkData(msg)
                 /\ UNCHANGED <<transfersR, file, destExists, current_transfer_id,
                                current_file_size, r_last_status, rWrites, r2s, histR,
                                rEffects>>
            [] msg.type \in {"TransferPause", "TransferResume", "TransferCancel"} ->
                 /\ OnControl(msg)
                 /\ UNCHANGED <<file, destExists, dest, wpos, bytes_received,
                                current_transfer_id, current_file_size, rWrites, r2s,
                                spaceSave, histR, accepted, rEffects>>
            [] msg.type = "TransferComplete" ->
                 /\ OnTransferComplete(msg)
                 /\ UNCHANGED <<transfersR, destExists, dest, wpos, bytes_received,
                                current_transfer_id, current_file_size, r_last_status,
                                spaceSave, accepted>>
            [] msg.type = "Garbled" ->
                 \* `msg_result?` on bytes that are no frame
                 /\ ReceiverEnds("DESERIALIZE")
                 /\ UNCHANGED <<transfersR, file, destExists, dest, wpos, bytes_received,
                                current_transfer_id, current_file_size, r_last_status,
                                rWrites, r2s, spaceSave, histR, accepted, rEffects>>
            [] OTHER -> UNCHANGED <<transfersR, rpc, rres, conn, file, destExists, dest,
                                    wpos, bytes_received, current_transfer_id,
                                    current_file_size, r_last_status, rWrites, r2s,
                                    spaceSave, histR, accepted, rEffects>>
    /\ UNCHANGED <<src, corrupted, cmds, cancelAt, spaceParent>>
    /\ UNCHANGED sndVars
    /\ UNCHANGED <<chunkVars, ackVars, sideVars>>

\* read_message fails (`msg_result?`): the connection is lost, or the sender
\* dropped it and what was in flight is gone
RecvReadError ==
    /\ rpc = "run"
    /\ conn \in {"cut", "closedS"}
    /\ ReceiverEnds("IO")
    /\ UNCHANGED <<src, s2r, r2s, corrupted, cmds, cancelAt, rpart>>
    /\ UNCHANGED sndVars
    /\ UNCHANGED <<transfersR, file, destExists, dest, wpos, bytes_received,
                   current_transfer_id, current_file_size, r_last_status, rWrites,
                   spaceParent, spaceSave, histR, accepted, rEffects>>
    /\ UNCHANGED <<chunkVars, ackVars, sideVars>>

\* variant: the `return Err(..)` after TransferCancel is missing
TickCancelled_NoReturn ==
    /\ rWrites' = Append(rWrites, Control("TransferCancel", current_transfer_id))
    /\ r2s' = ReceiverSent(Control("TransferCancel", current_transfer_id))
    /\ r_last_status' = Cancelled
    /\ UNCHANGED <<rpc, rres, conn>>

\* the poll reads Cancelled: TransferCancel is written (its result ignored)
\* and handle_transfer returns "Transfer cancelled by receiver"
TickCancelled ==
    /\ rWrites' = Append(rWrites, Control("TransferCancel", current_transfer_id))
    /\ r2s' = ReceiverSent(Control("TransferCancel", current_transfer_id))
    /\ ReceiverEnds("CANCELLED")
    /\ UNCHANGED r_last_status

\* the sleep(500 ms) branch of select!: the pending read_message is dropped
\* with the bytes it had taken, then the local registry is polled
RecvTick ==
    /\ rpc = "run"
    /\ rpart' = FALSE
    /\ s2r' = IF rpart /\ s2r # <<>> THEN <<Garbled>> \o Tail(s2r) ELSE s2r
    /\ IF current_transfer_id # NoId
       THEN LET status == GetStatus(transfersR, current_transfer_id)
            IN IF status # r_last_status
               THEN CASE status = Cancelled -> TickCancelled
                      [] status = Paused ->
                           /\ rWrites' = Append(rWrites, Control("TransferPause", current_transfer_id))
                           /\ r2s' = ReceiverSent(Control("TransferPause", current_transfer_id))
                           /\ r_last_status' = status
                           /\ UNCHANGED <<rpc, rres, conn>>
                      [] status = InProgress /\ r_last_status = Paused ->
                           /\ rWrites' = Append(rWrites, Control("TransferResume", current_transfer_id))
                           /\ r2s' = ReceiverSent(Control("TransferResume", current_transfer_id))
                           /\ r_last_status' = status
                           /\ UNCHANGED <<rpc, rres, conn>>
                      [] OTHER ->
                           /\ r_last_status' = status
                           /\ UNCHANGED <<rWrites, r2s, rpc, rres, conn>>
               ELSE UNCHANGED <<rWrites, r2s, rpc, rres, conn, r_last_status>>
       ELSE UNCHANGED <<rWrites, r2s, rpc, rres, conn, r_last_status>>
    /\ UNCHANGED <<src, corrupted, cmds, cancelAt>>
    /\ UNCHANGED sndVars
    /\ UNCHANGED <<transfersR, file, destExists, dest, wpos, bytes_received,
                   current_transfer_id, current_file_size, spaceParent, spaceSave, histR, accepted, rEffects>>
    /\ UNCHANGED <<chunkVars, ackVars, sideVars>>

----------------------------------------------------------------------------
(* The commands of the UI dispatcher (lib.rs), on either process *)

\* variant: every entry of the map takes the status
SetStatus_All(registry, transfer_id, status) ==
    IF registry[transfer_id] # Absent
    THEN [k \in DOMAIN registry |-> IF registry[k] # Absent THEN status ELSE Absent]
    ELSE registry

\* the body shared by pause_transfer, resume_transfer and cancel_transfer
SetStatus(registry, transfer_id, status) ==
    IF registry[transfer_id] # Absent
    THEN [registry EXCEPT ![transfer_id] = status]
    ELSE registry

\* variant: the commands return Ok for any id
CommandResult_Ok(registry, transfer_id) == "Ok"

\* what the commands return
CommandResult(registry, transfer_id) ==
    IF registry[transfer_id] # Absent THEN "Ok" ELSE "Transfer not found"

\* the sender is in its chunk loop / the receiver in its message loop with
\* the offer accepted
SenderLive == spc \in {"check", "paused", "read"}
ReceiverLive == rpc = "run" /\ current_transfer_id = TID

Command(status) ==
    /\ cmds < MaxCmds
    /\ cmds' = cmds + 1
    /\ \E id \in {TID, OtherId} :
         \/ /\ transfersS' = SetStatus(transfersS, id, status)
            /\ cancelAt' = IF /\ status = Cancelled /\ id = TID /\ cancelAt = "none"
                              /\ transfersS[TID] # Absent /\ SenderLive
                           THEN "S" ELSE cancelAt
            /\ UNCHANGED transfersR
         \/ /\ transfersR' = SetStatus(transfersR, id, status)
            /\ cancelAt' = IF /\ status = Cancelled /\ id = TID /\ cancelAt = "none"
                              /\ transfersR[TID] # Absent /\ ReceiverLive
                           THEN "R" ELSE cancelAt
            /\ UNCHANGED transfersS
    /\ UNCHANGED <<src, conn, s2r, r2s, corrupted, rpart>>
    /\ UNCHANGED <<spc, sres, chunk_index, total_sent, fpos, s_last_status, sWrites, ackRead, histS, sEvents>>
    /\ UNCHANGED <<rpc, rres, file, destExists, dest, wpos, bytes_received,
                   current_transfer_id, current_file_size, r_last_status, rWrites,
                   spaceParent, spaceSave, histR, accepted, rEffects>>
    /\ UNCHANGED <<chunkVars, ackVars, sideVars>>

pause_transfer == Command(Paused)
resume_transfer == Command(InProgress)
cancel_transfer == Command(Cancelled)

----------------------------------------------------------------------------
(* The network *)

\* the transport is cut: what is in flight is lost, in both directions
Cut ==
    /\ conn = "up"
    /\ conn' = "cut"
    /\ s2r' = <<>>
    /\ r2s' = <<>>
    /\ rpart' = FALSE
    /\ UNCHANGED <<src, corrupted, cmds, cancelAt>>
    /\ UNCHANGED sndVars
    /\ UNCHANGED <<transfersR, rpc, rres, file, destExists, dest, wpos, bytes_received,
                   current_transfer_id, current_file_size, r_last_status, rWrites,
                   spaceParent, spaceSave, histR, accepted, rEffects>>
    /\ UNCHANGED <<chunkVars, ackVars, sideVars>>

Flip(data) == [data EXCEPT ![1] = @ + 100]

\* one bit of the data of one ChunkData in flight is flipped, its chunk_hash
\* left as it was
Corrupt ==
    /\ ~corrupted
    /\ corrupted' = TRUE
    /\ \E i \in 1..Len(s2r) :
         /\ s2r[i].type = "ChunkData"
         /\ s2r' = [s2r EXCEPT ![i].data = Flip(@)]
    /\ UNCHANGED <<src, conn, r2s, cmds, cancelAt, rpart>>
    /\ UNCHANGED sndVars
    /\ UNCHANGED rcvVars
    /\ UNCHANGED <<chunkVars, ackVars, sideVars>>

----------------------------------------------------------------------------
Next ==
    \/ SendFileCmd
    \/ SendOffer
    \/ SenderCheck
    \/ SenderPausePoll
    \/ SenderRead
    \/ SenderAck
    \/ RecvPartial
    \/ RecvMessage
    \/ RecvReadError
    \/ RecvTick
    \/ pause_transfer
    \/ resume_transfer
    \/ cancel_transfer
    \/ Cut
    \/ Corrupt

Spec == Init /\ [][Next]_vars

----------------------------------------------------------------------------
(* LiveSpec: the same steps for one transfer of a file of MaxBlocks cells   *)
(* into an empty save directory with room, under the scheduling of the two  *)
(* tasks                                                                    *)

LiveInit ==
    /\ Init
    /\ src = [i \in 1..MaxBlocks |-> i]
    /\ ~destExists
    /\ spaceParent = (MaxBlocks + 1) * Block
    /\ spaceSave = (MaxBlocks + 1) * Block

\* the sender task runs each step of send_file; the receiver's select! takes
\* a message that is there; its sleep(500 ms) is created anew by every round
\* of the loop, so the poll is only sure to run when no message can be read
Fairness ==
    /\ WF_vars(SendOffer)
    /\ WF_vars(SenderCheck)
    /\ WF_vars(SenderPausePoll)
    /\ WF_vars(SenderRead)
    /\ WF_vars(SenderAck)
    /\ WF_vars(RecvMessage)
    /\ WF_vars(RecvReadError)
    /\ WF_vars(RecvTick /\ s2r = <<>>)

LiveSpec == LiveInit /\ [][Next]_vars /\ Fairness

----------------------------------------------------------------------------
(* ChunkSpec: the chunk loop of send_file on byte counts, for a transfer    *)
(* that is neither paused nor cancelled and whose writes succeed            *)

\* file sizes around the thresholds, and those of the end-to-end scenarios
FileSizes ==
    {0, 1, MIN_CHUNK_SIZE - 1, MIN_CHUNK_SIZE, MIN_CHUNK_SIZE + 1, 800000,
     MiB - 1, MiB, MiB + 1, 50 * MiB, 100 * MiB - 1, 100 * MiB, 400 * MiB}

ChunkSpecInit ==
    /\ src = <<>>
    /\ conn = "none"
    /\ s2r = <<>>
    /\ r2s = <<>>
    /\ corrupted = FALSE
    /\ cmds = 0
    /\ cancelAt = "none"
    /\ rpart = FALSE
    /\ transfersS = [k \in Keys |-> Absent]
    /\ spc = "idle"
    /\ sres = "none"
    /\ chunk_index = 0
    /\ total_sent = 0
    /\ fpos = 0
    /\ s_last_status = InProgress
    /\ sWrites = <<>>
    /\ ackRead = FALSE
    /\ sEvents = <<>>
    /\ histS = "none"
    /\ transfersR = [k \in Keys |-> Absent]
    /\ rpc = "idle"
    /\ rres = "none"
    /\ file = FALSE
    /\ destExists = FALSE
    /\ dest = <<>>
    /\ wpos = 0
    /\ bytes_received = 0
    /\ current_transfer_id = NoId
    /\ current_file_size = 0
    /\ r_last_status = InProgress
    /\ rWrites = <<>>
    /\ spaceParent = 0
    /\ spaceSave = 0
    /\ histR = "none"
    /\ accepted = <<>>
    /\ rEffects = <<>>
    /\ AckIdle
    /\ SideIdle
    /\ cSize \in FileSizes
    /\ cPos = 0
    /\ cLens = <<>>
    /\ cDone = FALSE

\* let n = file.read(&mut buffer).await?  with n > 0: one ChunkData of n
\* bytes, whose chunk_index is the number of chunks emitted before it
ChunkRead ==
    /\ ~cDone
    /\ LET n == FileRead(calculate_chunk_size(cSize), cSize - cPos)
       IN /\ n > 0
          /\ cLens' = Append(cLens, n)
          /\ cPos' = cPos + n
    /\ UNCHANGED <<cSize, cDone>>
    /\ UNCHANGED <<envVars, sndVars, rcvVars, ackVars, sideVars>>

\* n == 0: break
ChunkEof ==
    /\ ~cDone
    /\ FileRead(calculate_chunk_size(cSize), cSize - cPos) = 0
    /\ cDone' = TRUE
    /\ UNCHANGED <<cSize, cPos, cLens>>
    /\ UNCHANGED <<envVars, sndVars, rcvVars, ackVars, sideVars>>

ChunkNext == ChunkRead \/ ChunkEof

ChunkSpec == ChunkSpecInit /\ [][ChunkNext]_vars

----------------------------------------------------------------------------
(* AckSpec: step 5 of send_file, the wait for the acknowledgment, with time *)
(* and with a peer that may write any short sequence of messages            *)

\* std::time::Duration::from_secs(30), in seconds
ACK_TIMEOUT_SECS == 30
\* seconds by which the clock of AckSpec advances in one step
TimeStep == 10

\* TransferRecord, as far as the wait uses it: id and status
Record(id, status) == [id |-> id, status |-> status]

\* what the peer may write while the sender waits
PeerMsgs ==
    {Control("TransferCompleteAck", TID),
     Control("TransferCompleteAck", OtherId),
     Control("TransferCancel", TID),
     HistorySync(<<Record("h1", "completed")>>),
     HistorySync(<<Record("h1", "failed"), Record("h2", "completed")>>)}

SeqsUpTo(S, n) == UNION {[1..k -> S] : k \in 0..n}

AckSpecInit ==
    /\ src = <<>>
    /\ conn = "none"
    /\ s2r = <<>>
    /\ r2s = <<>>
    /\ corrupted = FALSE
    /\ cmds = 0
    /\ cancelAt = "none"
    /\ rpart = FALSE
    /\ transfersS = [k \in Keys |-> Absent]
    /\ spc = "idle"
    /\ sres = "none"
    /\ chunk_index = 0
    /\ total_sent = 0
    /\ fpos = 0
    /\ s_last_status = InProgress
    /\ sWrites = <<>>
    /\ ackRead = FALSE
    /\ sEvents = <<>>
    /\ histS = "none"
    /\ transfersR = [k \in Keys |-> Absent]
    /\ rpc = "idle"
    /\ rres = "none"
    /\ file = FALSE
    /\ destExists = FALSE
    /\ dest = <<>>
    /\ wpos = 0
    /\ bytes_received = 0
    /\ current_transfer_id = NoId
    /\ current_file_size = 0
    /\ r_last_status = InProgress
    /\ rWrites = <<>>
    /\ spaceParent = 0
    /\ spaceSave = 0
    /\ histR = "none"
    /\ accepted = <<>>
    /\ rEffects = <<>>
    /\ ChunkInit
    /\ SideIdle
    \* send_stream.finish() has returned; let mut completion_received = false
    /\ aInbox \in SeqsUpTo(PeerMsgs, MaxInbox)
    /\ aSince = 0
    /\ aTotal = 0
    /\ aRes = "waiting"
    /\ aSynced = [id \in HistIds |-> "none"]

\* variant: the records of a HistorySync are dropped
StoreRecords_None(db, records) == db

\* for record in records: record_transfer (INSERT, its error ignored when the
\* id is there already), then update_transfer_status (UPDATE): the row of
\* record.id ends with record.status
StoreRecords(db, records) ==
    [id \in DOMAIN db |->
       LET at == {i \in 1..Len(records) : records[i].id = id}
       IN IF at = {} THEN db[id]
          ELSE records[CHOOSE i \in at : \A j \in at : j <= i].status]

\* the pending read_message has been waiting for less than the timeout
AckTimePasses ==
    /\ aRes = "waiting"
    /\ aSince < ACK_TIMEOUT_SECS
    /\ aSince' = aSince + TimeStep
    /\ aTotal' = aTotal + TimeStep
    /\ UNCHANGED <<aInbox, aRes, aSynced>>
    /\ UNCHANGED <<envVars, sndVars, rcvVars, chunkVars, sideVars>>

\* Ok(Ok(msg)): a message is read before the timeout of this read_message;
\* on HistorySync the loop goes round and a new timeout(30 s, read_message)
\* is started
AckMessage ==
    /\ aRes = "waiting"
    /\ aInbox # <<>>
    /\ aInbox' = Tail(aInbox)
    /\ LET msg == Head(aInbox)
           outcome == AckOutcome(msg, TID)
       IN IF outcome = "continue"
          THEN /\ aSynced' = StoreRecords(aSynced, msg.records)
               /\ aSince' = 0
               /\ UNCHANGED aRes
          ELSE /\ aRes' = outcome
               /\ UNCHANGED <<aSynced, aSince>>
    /\ UNCHANGED aTotal
    /\ UNCHANGED <<envVars, sndVars, rcvVars, chunkVars, sideVars>>

\* Ok(Err(e)): the peer has closed or reset the stream
AckReadError ==
    /\ aRes = "waiting"
    /\ aInbox = <<>>
    /\ aRes' = "IO"
    /\ UNCHANGED <<aInbox, aSince, aTotal, aSynced>>
    /\ UNCHANGED <<envVars, sndVars, rcvVars, chunkVars, sideVars>>

\* Err(_): the timeout of the pending read_message has elapsed
AckTimeout ==
    /\ aRes = "waiting"
    /\ aSince = ACK_TIMEOUT_SECS
    /\ aRes' = "ACK_TIMEOUT"
    /\ UNCHANGED <<aInbox, aSince, aTotal, aSynced>>
    /\ UNCHANGED <<envVars, sndVars, rcvVars, chunkVars, sideVars>>

AckNext ==
    \/ AckTimePasses
    \/ AckMessage
    \/ AckReadError
    \/ AckTimeout

AckSpec == AckSpecInit /\ [][AckNext]_vars

----------------------------------------------------------------------------
(* PeerSpec: handle_transfer on a connection whose peer writes any short    *)
(* sequence of messages (the listener accepts every incoming connection)    *)

\* what the peer may write: an offer of one block, its chunk, and control
\* messages with the offered or with another id
PeerSends ==
    {FileOffer(TID, Block, Blake3(<<1>>), calculate_chunk_size(Block)),
     ChunkData(TID, 0, <<1>>, Blake3(<<1>>)),
     Control("TransferComplete", TID),
     Control("TransferComplete", OtherId),
     Control("TransferPause", TID)}

PeerSpecInit ==
    /\ src = <<>>
    /\ conn = "up"
    /\ s2r \in SeqsUpTo(PeerSends, MaxInbox)
    /\ r2s = <<>>
    /\ corrupted = FALSE
    /\ cmds = 0
    /\ cancelAt = "none"
    /\ rpart = FALSE
    /\ transfersS = [k \in Keys |-> Absent]
    /\ spc = "idle"
    /\ sres = "none"
    /\ chunk_index = 0
    /\ total_sent = 0
    /\ fpos = 0
    /\ s_last_status = InProgress
    /\ sWrites = <<>>
    /\ ackRead = FALSE
    /\ sEvents = <<>>
    /\ histS = "none"
    /\ transfersR = [k \in Keys |-> Absent]
    \* accept_bi() has returned; the locals of handle_transfer
    /\ rpc = "run"
    /\ rres = "none"
    /\ file = FALSE
    /\ destExists = FALSE
    /\ dest = <<>>
    /\ wpos = 0
    /\ bytes_received = 0
    /\ current_transfer_id = NoId
    /\ current_file_size = 0
    /\ r_last_status = InProgress
    /\ rWrites = <<>>
    /\ spaceParent = 2 * Block
    /\ spaceSave = 2 * Block
    /\ histR = "none"
    /\ accepted = <<>>
    /\ rEffects = <<>>
    /\ ChunkInit
    /\ AckIdle
    /\ SideIdle

PeerNext ==
    \/ RecvPartial
    \/ RecvMessage
    \/ RecvReadError
    \/ RecvTick
    \/ Cut

PeerSpec == PeerSpecInit /\ [][PeerNext]_vars

----------------------------------------------------------------------------
(* RegSpec: the registry of one process (state.transfers), shared by its    *)
(* send_file tasks, its receiver task and the three commands; each task is  *)
(* reduced to its writes to the registry                                    *)

\* the variables of the end-to-end protocol at rest
CoreIdle ==
    /\ src = <<>>
    /\ conn = "none"
    /\ s2r = <<>>
    /\ r2s = <<>>
    /\ corrupted = FALSE
    /\ cmds = 0
    /\ cancelAt = "none"
    /\ rpart = FALSE
    /\ transfersS = [k \in Keys |-> Absent]
    /\ spc = "idle"
    /\ sres = "none"
    /\ chunk_index = 0
    /\ total_sent = 0
    /\ fpos = 0
    /\ s_last_status = InProgress
    /\ sWrites = <<>>
    /\ ackRead = FALSE
    /\ sEvents = <<>>
    /\ histS = "none"
    /\ transfersR = [k \in Keys |-> Absent]
    /\ rpc = "idle"
    /\ rres = "none"
    /\ file = FALSE
    /\ destExists = FALSE
    /\ dest = <<>>
    /\ wpos = 0
    /\ bytes_received = 0
    /\ current_transfer_id = NoId
    /\ current_file_size = 0
    /\ r_last_status = InProgress
    /\ rWrites = <<>>
    /\ spaceParent = 0
    /\ spaceSave = 0
    /\ histR = "none"
    /\ accepted = <<>>
    /\ rEffects = <<>>
    /\ ChunkInit
    /\ AckIdle

\* transfer ids: uuids of send_file commands, ids offered by peers
RegIds == {TID, OtherId}

Op(op, id, ret) == [op |-> op, id |-> id, ret |-> ret]

RegSpecInit ==
    /\ CoreIdle
    /\ SideIdle

\* lib.rs send_file: a new uuid enters the registry and the sender starts
RegSendFile ==
    /\ \E id \in RegIds :
         /\ transfers[id] = Absent
         /\ id \notin regSending
         /\ transfers' = Inserted(transfers, id)
         /\ regSending' = regSending \cup {id}
         /\ regLast' = Op("send_file", id, "none")
    /\ UNCHANGED <<regRecvRun, regRecv>>
    /\ UNCHANGED regRest

\* file.read returned 0: the sender marks its transfer Completed
RegSenderEof ==
    /\ \E id \in regSending :
         /\ transfers' = [transfers EXCEPT ![id] = Completed]
         /\ regSending' = regSending \ {id}
         /\ regLast' = Op("eof", id, "none")
    /\ UNCHANGED <<regRecvRun, regRecv>>
    /\ UNCHANGED regRest

\* send_file returns from its chunk loop: cancelled, or a write failed
RegSenderReturns ==
    /\ \E id \in regSending :
         /\ regSending' = regSending \ {id}
         /\ regLast' = Op("return", id, "none")
    /\ UNCHANGED <<transfers, regRecvRun, regRecv>>
    /\ UNCHANGED regRest

\* start_listening: a connection is accepted and handle_transfer starts with
\* an empty current_transfer_id
RegReceiverStarts ==
    /\ ~regRecvRun
    /\ regRecvRun' = TRUE
    /\ regRecv' = NoId
    /\ regLast' = Op("accept_bi", NoId, "none")
    /\ UNCHANGED <<transfers, regSending>>
    /\ UNCHANGED regRest

\* FileOffer arm: the offered id becomes current_transfer_id and enters the
\* registry
RegOffer ==
    /\ regRecvRun
    /\ \E id \in RegIds :
         /\ regRecv' = id
         /\ transfers' = Inserted(transfers, id)
         /\ regLast' = Op("offer", id, "none")
    /\ UNCHANGED <<regSending, regRecvRun>>
    /\ UNCHANGED regRest

\* TransferPause / TransferResume / TransferCancel arms: insert under
\* current_transfer_id; the cancel arm returns
RegControl ==
    /\ regRecvRun
    /\ \E status \in {Paused, InProgress, Cancelled} :
         /\ transfers' = Mirror(transfers, regRecv, status)
         /\ regRecvRun' = (status # Cancelled)
         /\ regLast' = Op("control", regRecv, "none")
    /\ UNCHANGED <<regSending, regRecv>>
    /\ UNCHANGED regRest

\* handle_transfer returns, Ok or with an error
RegReceiverReturns ==
    /\ regRecvRun
    /\ regRecvRun' = FALSE
    /\ regLast' = Op("return", regRecv, "none")
    /\ UNCHANGED <<transfers, regSending, regRecv>>
    /\ UNCHANGED regRest

CommandNames ==
    [pause_transfer |-> Paused, resume_transfer |-> InProgress, cancel_transfer |-> Cancelled]

\* pause_transfer / resume_transfer / cancel_transfer with any id
RegCommand ==
    /\ \E name \in DOMAIN CommandNames, id \in RegIds :
         /\ transfers' = SetStatus(transfers, id, CommandNames[name])
         /\ regLast' = Op(name, id, CommandResult(transfers, id))
    /\ UNCHANGED <<regSending, regRecvRun, regRecv>>
    /\ UNCHANGED regRest

RegNext ==
    \/ RegSendFile
    \/ RegSenderEof
    \/ RegSenderReturns
    \/ RegReceiverStarts
    \/ RegOffer
    \/ RegControl
    \/ RegReceiverReturns
    \/ RegCommand

RegSpec == RegSpecInit /\ [][RegNext]_vars

----------------------------------------------------------------------------
(* FrameSpec: write_message on one side of an ordered byte stream,          *)
(* read_message on the other; the stream delivers the bytes in order, in    *)
(* pieces of any size                                                       *)

\* messages written in one run
MaxMsgs == 2

\* data = bincode::serialize(msg): the n bytes of a message, all equal to tag
Payload(n, tag) == [i \in 1..n |-> tag]

\* serialized messages: short ones and one whose length needs two bytes
Payloads == {Payload(1, 11), Payload(3, 13), Payload(257, 14)}

\* sizes of the pieces in which the stream may deliver what is in flight,
\* besides all of it: frames are 5, 7 and 261 bytes long, so that pieces
\* end inside length prefixes and inside payloads
PieceSizes == {4, 64}

\* (len as u32).to_be_bytes(): the four low-order bytes of len, most
\* significant first (the cast keeps len modulo 2^32, which is what taking
\* each byte modulo 256 does)
ToBe(len) ==
    <<(len \div (2^24)) % 256, (len \div (2^16)) % 256, (len \div (2^8)) % 256, len % 256>>

\* variant: the length is decoded least significant byte first
FromBe_Little(b) == ((b[4] * 256 + b[3]) * 256 + b[2]) * 256 + b[1]

\* u32::from_be_bytes(len_buf) as usize
FromBe(b) == ((b[1] * 256 + b[2]) * 256 + b[3]) * 256 + b[4]

\* write_message: the length prefix, then the payload
Frame(data) == ToBe(Len(data)) \o data

FrameSpecInit ==
    /\ CoreIdle
    /\ RegIdle
    /\ ListenIdle
    /\ DiscIdle
    /\ ReachIdle
    /\ fMsgs \in SeqsUpTo(Payloads, MaxMsgs)
    /\ fNext = 1
    /\ fWire = <<>>
    /\ fBuf = <<>>
    /\ fPhase = "len"
    /\ fNeed = 4
    /\ fGot = <<>>
    /\ fOut = <<>>
    /\ fShort = FALSE

\* write_message(stream, msg): two write_all
FrameWrite ==
    /\ fNext <= Len(fMsgs)
    /\ fWire' = fWire \o Frame(fMsgs[fNext])
    /\ fNext' = fNext + 1
    /\ UNCHANGED <<fMsgs, fBuf, fPhase, fNeed, fGot, fOut, fShort>>
    /\ UNCHANGED frameRest

\* the stream delivers the next bytes, in order
FrameDeliver ==
    /\ fWire # <<>>
    /\ \E k \in PieceSizes \cup {Len(fWire)} :
         /\ k <= Len(fWire)
         /\ fBuf' = fBuf \o SubSeq(fWire, 1, k)
         /\ fWire' = SubSeq(fWire, k + 1, Len(fWire))
    /\ UNCHANGED <<fMsgs, fNext, fPhase, fNeed, fGot, fOut, fShort>>
    /\ UNCHANGED frameRest

\* read_message: read_exact takes what is there, up to what it needs; when
\* len_buf is full the payload buffer of that length is read, and when that
\* is full the message is returned
FrameRead ==
    /\ fBuf # <<>>
    /\ LET n == Min(Len(fBuf), fNeed - Len(fGot))
           got == fGot \o SubSeq(fBuf, 1, n)
       IN /\ fBuf' = SubSeq(fBuf, n + 1, Len(fBuf))
          /\ fShort' = (fShort \/ Len(got) < fNeed)
          /\ IF Len(got) < fNeed
             THEN /\ fGot' = got
                  /\ UNCHANGED <<fPhase, fNeed, fOut>>
             ELSE IF fPhase = "len"
             THEN /\ fPhase' = "payload"
                  /\ fNeed' = FromBe(got)
                  /\ fGot' = <<>>
                  /\ UNCHANGED fOut
             ELSE /\ fPhase' = "len"
                  /\ fNeed' = 4
                  /\ fGot' = <<>>
                  /\ fOut' = Append(fOut, got)
    /\ UNCHANGED <<fMsgs, fNext, fWire>>
    /\ UNCHANGED frameRest

FrameNext ==
    \/ FrameWrite
    \/ FrameDeliver
    \/ FrameRead

FrameSpec == FrameSpecInit /\ [][FrameNext]_vars

----------------------------------------------------------------------------
(* ListenSpec: the accept loop of start_listening and the tasks it spawns;  *)
(* the receivers share the save directory                                   *)

\* variant: the loop gives up when a connection or a receiver fails
LoopAfter_Stop(loop, outcome) == IF outcome = "ok" THEN loop ELSE "stopped"

\* what the outcome of a spawned task does to the loop: it is printed
LoopAfter(loop, outcome) == loop

ListenSpecInit ==
    /\ CoreIdle
    /\ SideIdle

\* endpoint.accept() yields a connection: a task is spawned for it and the
\* loop goes back to accept
ListenAccept ==
    /\ lLoop = "accepting"
    /\ lAccepted < MaxConns
    /\ lAccepted' = lAccepted + 1
    /\ lTask' = [lTask EXCEPT ![lAccepted + 1] = "connecting"]
    /\ UNCHANGED <<lLoop, lName, lDir>>
    /\ UNCHANGED listenRest

\* conn.await in the task: Ok(connection) starts a receiver, Err is printed
ListenHandshake(i) ==
    /\ lTask[i] = "connecting"
    /\ \E outcome \in {"ok", "failed"} :
         /\ lTask' = [lTask EXCEPT ![i] = IF outcome = "ok" THEN "receiving" ELSE "handshake_failed"]
         /\ lLoop' = LoopAfter(lLoop, outcome)
    /\ UNCHANGED <<lAccepted, lName, lDir>>
    /\ UNCHANGED listenRest

\* the receiver of task i takes a FileOffer: the file of that name in the
\* save directory is opened, created if it is not there
ListenOffer(i) ==
    /\ lTask[i] = "receiving"
    /\ \E n \in FileNames :
         /\ lName' = [lName EXCEPT ![i] = n]
         /\ lDir' = [lDir EXCEPT ![n] = i]
    /\ UNCHANGED <<lLoop, lAccepted, lTask>>
    /\ UNCHANGED listenRest

\* the receiver of task i writes a chunk to its file
ListenChunk(i) ==
    /\ lTask[i] = "receiving"
    /\ lName[i] # ""
    /\ lDir' = [lDir EXCEPT ![lName[i]] = i]
    /\ UNCHANGED <<lLoop, lAccepted, lTask, lName>>
    /\ UNCHANGED listenRest

\* handle_transfer returns; the task prints the result and ends
ListenReturns(i) ==
    /\ lTask[i] = "receiving"
    /\ \E outcome \in {"ok", "failed"} :
         /\ lTask' = [lTask EXCEPT ![i] = IF outcome = "ok" THEN "received" ELSE "receive_failed"]
         /\ lLoop' = LoopAfter(lLoop, outcome)
    /\ UNCHANGED <<lAccepted, lName, lDir>>
    /\ UNCHANGED listenRest

ListenNext ==
    \/ ListenAccept
    \/ \E i \in Conns : ListenHandshake(i)
    \/ \E i \in Conns : ListenOffer(i)
    \/ \E i \in Conns : ListenChunk(i)
    \/ \E i \in Conns : ListenReturns(i)

ListenSpec == ListenSpecInit /\ [][ListenNext]_vars

----------------------------------------------------------------------------
(* DiscSpec: the table of discovered devices, written by the mDNS event     *)
(* loop and by the cleanup task of start_discovery. Ids and instance names  *)
(* are sequences of characters.                                             *)

DEVICE_TIMEOUT_SECS == 300

\* the cleanup task sleeps this long before each pass
CleanupSleepSecs == 10

\* steps of the cleanup task in one run
MaxPasses == 3

\* numbers of consecutive cleanup passes taken as one step when no event is
\* handled between them: entries only age in between, so the last pass of
\* the run leaves the table that the passes one after the other leave
PassRuns == {1, 29, 30}

\* self.device_id
OwnId == <<"o", "w", "n", "0", "0", "0", "0", "0", "-", "9">>

\* ids of two peers
IdA == <<"a", "a", "a", "a", "1", "1", "1", "1", "-", "7">>
IdB == <<"b", "b", "b", "b", "2", "2", "2", "2", "-", "8">>

\* "unknown"
Unknown == <<"u", "n", "k", "n", "o", "w", "n">>

\* info.get_property_val_str("id") of a resolved service: the id a device
\* announces, or nothing
IdProperties ==
    {[some |-> TRUE, val |-> id] : id \in {OwnId, IdA, IdB}}
        \cup {[some |-> FALSE, val |-> <<>>]}

\* .unwrap_or("unknown")
IdOf(prop) == IF prop.some THEN prop.val ELSE Unknown

\* format!("{}_{}", device_name, &device_id[..8]) of a device named P
InstanceName(id) == <<"P", "_">> \o SubSeq(id, 1, 8)

\* names in ServiceRemoved events: the peers' and that of a service that
\* announces no id
RemovedNames == {InstanceName(IdA), InstanceName(IdB), <<"t", "v", "_", "1">>}

\* name.contains(pattern)
Contains(name, pattern) ==
    \E k \in 0..(Len(name) - Len(pattern)) :
        SubSeq(name, k + 1, k + Len(pattern)) = pattern

Device(id, now) == [id |-> id, last_seen |-> now]

\* devices.insert(id, device)
Put(table, id, device) ==
    [k \in DOMAIN table \cup {id} |-> IF k = id THEN device ELSE table[k]]

\* devices.remove(&id)
Without(table, id) == [k \in DOMAIN table \ {id} |-> table[k]]

\* let keep = now - device.last_seen < DEVICE_TIMEOUT_SECS
Keep(now, device) == now - device.last_seen < DEVICE_TIMEOUT_SECS

\* devices.retain(|id, device| keep)
Retain(table, now) ==
    [k \in {id \in DOMAIN table : Keep(now, table[id])} |-> table[k]]

\* the orders in which devices.iter() may yield the entries of the HashMap
Orders(table) ==
    {o \in [1..Cardinality(DOMAIN table) -> DOMAIN table] :
        \A i, j \in DOMAIN o : i # j => o[i] # o[j]}

\* devices.iter().find(|(_, d)| name.contains(&d.id[..8])) over the entries in
\* the order o: &d.id[..8] panics on an id of fewer than 8 bytes; find stops
\* at the first entry whose prefix the name contains
Find(o, name) ==
    LET short == {i \in DOMAIN o : Len(o[i]) < 8}
        match == {i \in DOMAIN o : Len(o[i]) >= 8 /\ Contains(name, SubSeq(o[i], 1, 8))}
        first(S) == CHOOSE i \in S : \A j \in S : i <= j
    IN IF short # {} /\ (match = {} \/ first(short) < first(match))
       THEN [panic |-> TRUE, some |-> FALSE, id |-> <<>>]
       ELSE IF match = {}
       THEN [panic |-> FALSE, some |-> FALSE, id |-> <<>>]
       ELSE [panic |-> FALSE, some |-> TRUE, id |-> o[first(match)]]

DiscSpecInit ==
    /\ CoreIdle
    /\ SideIdle

\* ServiceEvent::ServiceResolved(info)
DiscResolved ==
    /\ dLoop = "running"
    /\ \E prop \in IdProperties :
         LET id == IdOf(prop)
         IN /\ devices' = IF id = OwnId THEN devices
                          ELSE Put(devices, id, Device(id, dNow))
            /\ dLast' = [op |-> "resolved", id |-> id]
    /\ UNCHANGED <<dNow, dLoop, dPasses>>
    /\ UNCHANGED discRest

\* ServiceEvent::ServiceRemoved(_type, name); a panic ends the task that
\* runs the event loop and releases the lock
DiscRemoved ==
    /\ dLoop = "running"
    /\ \E name \in RemovedNames, o \in Orders(devices) :
         LET found == Find(o, name)
         IN /\ dLoop' = IF found.panic THEN "panicked" ELSE dLoop
            /\ devices' = IF found.some THEN Without(devices, found.id) ELSE devices
            /\ dLast' = [op |-> IF found.panic THEN "panic" ELSE "removed", id |-> found.id]
    /\ UNCHANGED <<dNow, dPasses>>
    /\ UNCHANGED discRest

\* a service is resolved after the task that ran the event loop has
\* panicked: nothing receives the event
DiscUnreceived ==
    /\ dLoop = "panicked"
    /\ \E prop \in IdProperties :
         dLast' = [op |-> "resolved_unreceived", id |-> IdOf(prop)]
    /\ UNCHANGED <<dNow, devices, dLoop, dPasses>>
    /\ UNCHANGED discRest

\* the cleanup task: sleep 10 s, then retain the entries that are not stale
DiscCleanup ==
    /\ dPasses < MaxPasses
    /\ \E k \in PassRuns :
         /\ dNow' = dNow + k * CleanupSleepSecs
         /\ devices' = Retain(devices, dNow')
    /\ dPasses' = dPasses + 1
    /\ dLast' = [op |-> "cleanup", id |-> <<>>]
    /\ UNCHANGED dLoop
    /\ UNCHANGED discRest

DiscNext ==
    \/ DiscResolved
    \/ DiscRemoved
    \/ DiscUnreceived
    \/ DiscCleanup

DiscSpec == DiscSpecInit /\ [][DiscNext]_vars

----------------------------------------------------------------------------
(* ReachSpec: find_reachable_ip on one device                               *)

\* addresses in a device's list
MaxIps == 3

\* addresses as Device holds them (IpAddr::to_string)
V4 == {"192.168.1.5", "10.0.0.7"}
V6 == {"fe80::1"}

\* the devices the event loop builds: the primary ip is one of all_ips, or
\* empty when there is none; all_ips has no address twice
Devices ==
    {[ip |-> ip, all_ips |-> l] :
        ip \in V4 \cup V6 \cup {""},
        l \in {q \in SeqsUpTo(V4 \cup V6, MaxIps) :
                  \A i, j \in DOMAIN q : i # j => q[i] # q[j]}}

\* format!("{}:{}", ip, port).parse::<SocketAddr>() is Ok: an IPv4 address
\* followed by the port is a socket address, an IPv6 address without brackets
\* and the empty string are not
Parses(ip) == ip \in V4

\* test_connectivity(ip, port)
TestConnectivity(ip, up) == Parses(ip) /\ ip \in up

\* Some(ip.clone())
SomeIp(ip) == [some |-> TRUE, ip |-> ip]

\* variant: the loop passes over every other entry
NextIndex_Skip(i) == i + 2

\* for ip in &device.all_ips goes on with the next entry
NextIndex(i) == i + 1

ReachSpecInit ==
    /\ CoreIdle
    /\ RegIdle
    /\ FrameIdle
    /\ ListenIdle
    /\ DiscIdle
    /\ rDevice \in {d \in Devices :
                       \/ d.all_ips = <<>> /\ d.ip = ""
                       \/ \E i \in DOMAIN d.all_ips : d.all_ips[i] = d.ip}
    /\ rUp \in SUBSET (V4 \cup V6)
    /\ rPc = "primary"
    /\ rIdx = 1
    /\ rResult = NoIp

\* first try the primary ip
ReachPrimary ==
    /\ rPc = "primary"
    /\ IF TestConnectivity(rDevice.ip, rUp)
       THEN /\ rResult' = SomeIp(rDevice.ip)
            /\ rPc' = "done"
            /\ UNCHANGED rIdx
       ELSE /\ rPc' = "list"
            /\ rIdx' = 1
            /\ UNCHANGED rResult
    /\ UNCHANGED <<rDevice, rUp>>
    /\ UNCHANGED reachRest

\* one round of the loop over all_ips
ReachOther ==
    /\ rPc = "list"
    /\ rIdx <= Len(rDevice.all_ips)
    /\ LET ip == rDevice.all_ips[rIdx]
       IN IF ip # rDevice.ip /\ TestConnectivity(ip, rUp)
          THEN /\ rResult' = SomeIp(ip)
               /\ rPc' = "done"
               /\ UNCHANGED rIdx
          ELSE /\ rIdx' = NextIndex(rIdx)
               /\ UNCHANGED <<rPc, rResult>>
    /\ UNCHANGED <<rDevice, rUp>>
    /\ UNCHANGED reachRest

\* the loop is over: None
ReachNone ==
    /\ rPc = "list"
    /\ rIdx > Len(rDevice.all_ips)
    /\ rResult' = NoIp
    /\ rPc' = "done"
    /\ UNCHANGED <<rDevice, rUp, rIdx>>
    /\ UNCHANGED reachRest

ReachNext ==
    \/ ReachPrimary
    \/ ReachOther
    \/ ReachNone

ReachSpec == ReachSpecInit /\ [][ReachNext]_vars

----------------------------------------------------------------------------
(* Vocabulary of the properties *)

Last(log) == log[Len(log)]

CeilDiv(a, b) == (a + b - 1) \div b

CountType(log, t) == Cardinality({i \in 1..Len(log) : log[i].type = t})

HasType(log, t) == \E i \in 1..Len(log) : log[i].type = t

TheAck == Control("TransferCompleteAck", TID)
TheCancel == Control("TransferCancel", TID)

\* this step appended a ChunkData to the sender's writes
ChunkEmitted ==
    /\ Len(sWrites') = Len(sWrites) + 1
    /\ Last(sWrites').type = "ChunkData"

\* this step is the receiver taking the head of the stream
RecvStep ==
    /\ rpc = "run"
    /\ s2r # <<>>
    /\ s2r' = Tail(s2r)
    /\ conn' # "cut"

\* the receiver ended while send_file was running, or the transport was cut
LostBeforeEnd == conn \in {"cut", "closedR"}

----------------------------------------------------------------------------
(* C1  Round trip: when the transfer completes (the receiver has sent the   *)
(* ack and send_file returned Ok) the destination file is byte-identical to *)
(* the source and so hashes to the metadata.hash of the offer.              *)
(* Violated: the file is opened without truncate, so a longer file already  *)
(* in the save directory keeps its tail.                                    *)
C1_RoundTrip ==
    (sres = "Ok" /\ rres = "Ok") =>
        /\ destExists
        /\ dest = src
        /\ Blake3(dest) = sWrites[1].hash

(* C2 as claimed: send_file returns Ok only after reading the ack, and when *)
(* the transport is cut, closed or silent before the ack is read it returns *)
(* IO or ACK_TIMEOUT.                                                       *)
C2_Original ==
    /\ sres = "Ok" => ackRead
    /\ (spc = "done" /\ ~ackRead /\ LostBeforeEnd) => sres \in {"IO", "ACK_TIMEOUT"}

(* C2  No ack, no success (amended): send_file returns Ok only if the       *)
(* sender has read the TransferCompleteAck the receiver wrote; if the       *)
(* transport is cut or closed before that ack is read, send_file ends with  *)
(* an error, never Ok: IO or ACK_TIMEOUT, or CANCELLED when the sender      *)
(* observed a local cancel and wrote TransferCancel, or PROTOCOL when the   *)
(* receiver had written a control message that the sender read instead.     *)
C2_NoAckNoSuccess ==
    /\ sres = "Ok" => (ackRead /\ \E i \in 1..Len(rWrites) : rWrites[i] = TheAck)
    /\ (spc = "done" /\ ~ackRead /\ LostBeforeEnd) =>
          \/ sres \in {"IO", "ACK_TIMEOUT"}
          \/ sres = "CANCELLED" /\ sWrites # <<>> /\ Last(sWrites) = TheCancel
          \/ sres = "PROTOCOL" /\ \E i \in 1..Len(rWrites) : rWrites[i].type # "TransferCompleteAck"

\* the transport was cut while the sender waited for the ack, which never came
C2_Witness ==
    /\ spc = "done"
    /\ conn = "cut"
    /\ HasType(sWrites, "TransferComplete")
    /\ ~ackRead
    /\ sres = "ACK_TIMEOUT"

(* C3  Cancellation finality: once the sender-side registry entry of a live *)
(* transfer was set to Cancelled before the sender left its chunk loop,     *)
(* send_file does not return Ok.                                            *)
(* Violated: a cancel written after the sender's last status check is       *)
(* overwritten with Completed at end of file, and a later resume or pause   *)
(* command overwrites it before the sender polls.                           *)
C3_CancellationFinality ==
    cancelAt = "S" => sres # "Ok"

(* C4  Once the sender has read Cancelled from the registry (at the top of  *)
(* the chunk loop or in a round of the pause loop) it writes TransferCancel *)
(* as its last message - no ChunkData, TransferResume or TransferComplete   *)
(* follows - and send_file returns CANCELLED.                               *)
C4_CancelObserved ==
    /\ [][(/\ spc \in {"check", "paused"}
           /\ transfersS[TID] = Cancelled
           /\ <<spc, sWrites, s_last_status>>' # <<spc, sWrites, s_last_status>>)
          => (/\ sWrites' = Append(sWrites, TheCancel)
              /\ spc' = "done"
              /\ sres' = "CANCELLED")]_vars
    /\ [](\A i \in 1..Len(sWrites) :
            sWrites[i].type = "TransferCancel" =>
                (i = Len(sWrites) /\ spc = "done" /\ sres = "CANCELLED"))
    /\ [](sres = "CANCELLED" => (sWrites # <<>> /\ Last(sWrites) = TheCancel))
    /\ [][spc = "done" => (sWrites' = sWrites /\ sres' = sres /\ spc' = spc)]_vars

\* the cancel was read in the pause loop, after a chunk had been sent
C4_Witness ==
    /\ sres = "CANCELLED"
    /\ HasType(sWrites, "ChunkData")
    /\ HasType(sWrites, "TransferPause")
    /\ Last(sWrites) = TheCancel

(* C5  Pause suspends, resume continues: from the sender observing Paused   *)
(* until it observes InProgress again no ChunkData is emitted and           *)
(* bytes_sent, the chunk counter and the file cursor stay; every ChunkData  *)
(* carries the index that follows the last emitted one and the file bytes   *)
(* that start at offset bytes_sent, also across a pause.                    *)
C5_PauseResume ==
    /\ [][(s_last_status = Paused \/ spc = "paused")
          => (/\ ~ChunkEmitted
              /\ total_sent' = total_sent
              /\ chunk_index' = chunk_index
              /\ fpos' = fpos)]_vars
    /\ [][ChunkEmitted
          => LET m == Last(sWrites')
                 first == (total_sent \div Block) + 1
             IN /\ m.chunk_index = CountType(sWrites, "ChunkData")
                /\ Len(m.data) > 0
                /\ first + Len(m.data) - 1 <= Len(src)
                /\ m.data = [i \in 1..Len(m.data) |-> src[first + i - 1]]]_vars

\* a chunk, then TransferPause, then TransferResume, then the next chunk
C5_Witness ==
    \E i, j, k, l \in 1..Len(sWrites) :
        /\ i < j /\ j < k /\ k < l
        /\ sWrites[i].type = "ChunkData"
        /\ sWrites[j].type = "TransferPause"
        /\ sWrites[k].type = "TransferResume"
        /\ sWrites[l].type = "ChunkData"

(* C6  Chunking discipline: a transfer that is not cancelled emits exactly  *)
(* ceil(s / chunk_size) ChunkData (none for an empty file), every chunk but *)
(* the last of length chunk_size and the last of s - (N-1) * chunk_size.    *)
(* Violated for s >= 100 MiB: one read returns at most 2 MiB of the 4 MiB   *)
(* buffer.                                                                  *)
C6_ChunkingDiscipline ==
    cDone =>
        LET chunk_size == calculate_chunk_size(cSize)
            N == Len(cLens)
        IN /\ N = CeilDiv(cSize, chunk_size)
           /\ \A i \in 1..(N - 1) : cLens[i] = chunk_size
           /\ N > 0 => cLens[N] = cSize - (N - 1) * chunk_size

(* C7  Adaptive chunk size: the chunk_size of the offer is 64 KiB below     *)
(* 1 MiB, 1 MiB from 1 MiB to below 100 MiB and 4 MiB from 100 MiB on; a    *)
(* file of 50 MiB is sent in 50 chunks and one of 400 MiB in 100 chunks.    *)
(* Violated: 400 MiB is sent in 200 chunks of 2 MiB.                        *)
C7_AdaptiveChunkSize ==
    /\ cSize < 1048576 => calculate_chunk_size(cSize) = 65536
    /\ (1048576 <= cSize /\ cSize < 104857600) => calculate_chunk_size(cSize) = 1048576
    /\ cSize >= 104857600 => calculate_chunk_size(cSize) = 4194304
    /\ (cDone /\ cSize = 52428800) => Len(cLens) = 50
    /\ (cDone /\ cSize = 419430400) => Len(cLens) = 100

\* the receiver is about to take a ChunkData whose data does not hash to its
\* chunk_hash, with the file open
BadChunkAtHead ==
    /\ file
    /\ s2r # <<>>
    /\ Head(s2r).type = "ChunkData"
    /\ Blake3(Head(s2r).data) # Head(s2r).chunk_hash

(* C8 as claimed: after the receiver failed CHUNK_HASH and closed, the      *)
(* sender's send_file ends with IO or ACK_TIMEOUT.                          *)
C8_Original ==
    (rres = "CHUNK_HASH" /\ conn = "closedR" /\ spc = "done")
        => sres \in {"IO", "ACK_TIMEOUT"}

(* C8  Hash-mismatch isolation (amended): a ChunkData whose data does not   *)
(* hash to its chunk_hash makes the receiver fail CHUNK_HASH without        *)
(* writing a byte of it; the receiver handles no later message and never    *)
(* writes TransferCompleteAck, and send_file never returns Ok: it ends with *)
(* IO or ACK_TIMEOUT, or with CANCELLED when the sender's own registry      *)
(* entry is cancelled first, or PROTOCOL when a control message written     *)
(* earlier by the receiver is read in the completion wait.                  *)
C8_HashMismatch ==
    /\ [][(BadChunkAtHead /\ RecvStep)
          => (/\ rpc' = "done"
              /\ rres' = "CHUNK_HASH"
              /\ dest' = dest
              /\ wpos' = wpos
              /\ bytes_received' = bytes_received
              /\ rWrites' = rWrites)]_vars
    /\ [][rpc = "done"
          => (/\ Len(s2r') >= Len(s2r)
              /\ UNCHANGED <<rpc, rres, file, dest, wpos, bytes_received, rWrites>>)]_vars
    /\ [](rres = "CHUNK_HASH"
          => (/\ ~HasType(rWrites, "TransferCompleteAck")
              /\ sres # "Ok"
              /\ spc = "done" => sres \in {"IO", "ACK_TIMEOUT", "CANCELLED", "PROTOCOL"}))

\* a flipped chunk was refused after an intact one was written, and the
\* sender ended on the closed connection
C8_Witness ==
    /\ corrupted
    /\ rres = "CHUNK_HASH"
    /\ bytes_received > 0
    /\ spc = "done"
    /\ sres \in {"IO", "ACK_TIMEOUT"}

(* C9  Disk-space pre-flight: an offer that arrives when the free space of  *)
(* the save directory is below metadata.size is refused with DISK_SPACE and *)
(* the destination file is neither opened nor created; with at least        *)
(* metadata.size free the offer is accepted.                                *)
(* Violated: the space checked is that of the parent of the save directory. *)
C9_DiskSpacePreflight ==
    [][(RecvStep /\ Head(s2r).type = "FileOffer")
       => IF spaceSave < Head(s2r).size
          THEN /\ rres' = "DISK_SPACE"
               /\ ~file'
               /\ destExists' = destExists
               /\ dest' = dest
          ELSE /\ rres' = "none"
               /\ file']_vars

(* C10  Sender wire order: one FileOffer, written first; ChunkData,         *)
(* TransferPause and TransferResume only after it; at most one              *)
(* TransferComplete, after every ChunkData and with nothing after it;       *)
(* never both TransferComplete and TransferCancel.                          *)
C10_SenderWireOrder ==
    LET n == Len(sWrites)
    IN /\ CountType(sWrites, "FileOffer") <= 1
       /\ n > 0 => sWrites[1].type = "FileOffer"
       /\ spc \in {"check", "paused", "read", "ack"} => CountType(sWrites, "FileOffer") = 1
       /\ sres \in {"Ok", "CANCELLED", "ACK_TIMEOUT", "PROTOCOL"} => CountType(sWrites, "FileOffer") = 1
       /\ CountType(sWrites, "TransferComplete") <= 1
       /\ \A i \in 1..n : sWrites[i].type = "TransferComplete" => i = n
       /\ ~(HasType(sWrites, "TransferComplete") /\ HasType(sWrites, "TransferCancel"))

\* offer, chunks around a pause and a resume, then TransferComplete
C10_Witness ==
    /\ sWrites # <<>>
    /\ Last(sWrites).type = "TransferComplete"
    /\ HasType(sWrites, "TransferPause")
    /\ HasType(sWrites, "TransferResume")
    /\ CountType(sWrites, "ChunkData") = 2

----------------------------------------------------------------------------
(* Vocabulary of the receiver's properties *)

RECURSIVE DataCells(_)
\* cells of data in the ChunkData of a log of messages
DataCells(log) ==
    IF log = <<>> THEN 0
    ELSE (IF Head(log).type = "ChunkData" THEN Len(Head(log).data) ELSE 0) + DataCells(Tail(log))

ControlTypes == {"TransferPause", "TransferResume", "TransferCancel"}

\* this step appended one message to the receiver's writes
ReceiverWrote == Len(rWrites') = Len(rWrites) + 1

\* the receiver is about to take a ChunkData that verifies, with the file open
GoodChunkAtHead ==
    /\ file
    /\ s2r # <<>>
    /\ Head(s2r).type = "ChunkData"
    /\ Blake3(Head(s2r).data) = Head(s2r).chunk_hash

(* C11  Single acknowledgment: the receiver writes TransferCompleteAck only *)
(* as its answer to a TransferComplete it has read, with the transfer_id of *)
(* that message; it writes at most one, exactly one when handle_transfer    *)
(* returns Ok, and the ack is the last thing it writes on the stream.       *)
C11_SingleAck ==
    /\ [](/\ CountType(rWrites, "TransferCompleteAck") <= 1
          /\ \A i \in 1..Len(rWrites) :
                rWrites[i].type = "TransferCompleteAck" =>
                    (i = Len(rWrites) /\ rWrites[i] = TheAck /\ rpc = "done")
          /\ rres = "Ok" => CountType(rWrites, "TransferCompleteAck") = 1)
    /\ [][CountType(rWrites', "TransferCompleteAck") > CountType(rWrites, "TransferCompleteAck")
          => (/\ RecvStep
              /\ Head(s2r).type = "TransferComplete"
              /\ rWrites' = Append(rWrites,
                                   Control("TransferCompleteAck", Head(s2r).transfer_id)))]_vars
    /\ [][rpc = "done" => rWrites' = rWrites]_vars

\* the receiver had mirrored a local pause to the sender, then acknowledged
C11_Witness ==
    /\ rres = "Ok"
    /\ Len(rWrites) = 2
    /\ rWrites[1].type = "TransferPause"
    /\ rWrites[2] = TheAck

(* C12  Write order: in every state the bytes written to the destination    *)
(* since the offer are the payloads of the ChunkData accepted so far, in    *)
(* arrival order and at consecutive offsets from 0; bytes_received is their *)
(* total length; and that content is the head of the source file.  A        *)
(* ChunkData that verifies is either appended at the cursor or, when the    *)
(* write fails, ends the receiver.                                          *)
C12_WriteOrder ==
    /\ [](/\ wpos <= Len(dest)
          /\ SubSeq(dest, 1, wpos) = accepted
          /\ bytes_received = Len(accepted) * Block
          /\ Len(accepted) <= Len(src)
          /\ accepted = SubSeq(src, 1, Len(accepted)))
    /\ [][(GoodChunkAtHead /\ RecvStep)
          => \/ /\ accepted' = accepted \o Head(s2r).data
                /\ wpos' = wpos + Len(Head(s2r).data)
                /\ \A i \in 1..Len(dest') :
                      (i <= wpos \/ i > wpos') => (i <= Len(dest) /\ dest'[i] = dest[i])
             \/ /\ rres' = "IO"
                /\ UNCHANGED <<dest, wpos, bytes_received, accepted>>]_vars

\* two chunks were written over the head of a longer file
C12_Witness ==
    /\ Len(accepted) = 2
    /\ Len(dest) > 2
    /\ rpc = "run"

(* C13  Sums: once the sender has written TransferComplete, the data of all *)
(* the ChunkData it wrote add up to the metadata.size of its FileOffer; and *)
(* once the receiver has written TransferCompleteAck its bytes_received is  *)
(* that same metadata.size.                                                 *)
C13_Sums ==
    /\ HasType(sWrites, "TransferComplete") =>
          DataCells(sWrites) * Block = sWrites[1].size
    /\ HasType(rWrites, "TransferCompleteAck") =>
          (bytes_received = sWrites[1].size /\ bytes_received = current_file_size)

\* a file of two chunks was acknowledged
C13_Witness ==
    /\ HasType(rWrites, "TransferCompleteAck")
    /\ HasType(sWrites, "TransferComplete")
    /\ bytes_received = 2 * Block

(* C14  History on error: a recorded transfer whose task ended with an      *)
(* error has the history status 'failed', or 'cancelled' when the error is  *)
(* a cancellation, on the side of that task; no row of an ended transfer    *)
(* stays 'in_progress'.                                                     *)
(* Violated: nothing updates the receiver's row when handle_transfer        *)
(* returns an error.                                                        *)
C14_ErrorHistory ==
    /\ (spc = "done" /\ histS # "none") =>
          /\ histS # "in_progress"
          /\ sres = "CANCELLED" => histS = "cancelled"
          /\ sres \notin {"Ok", "CANCELLED"} => histS \in {"failed", "cancelled"}
    /\ (rpc = "done" /\ histR # "none") =>
          /\ histR # "in_progress"
          /\ rres \in {"CANCELLED", "CANCELLED_BY_PEER"} => histR = "cancelled"
          /\ rres \notin {"Ok", "CANCELLED", "CANCELLED_BY_PEER"} => histR \in {"failed", "cancelled"}

(* C15  Truncate on offer: after a completed transfer no cell of a file     *)
(* that was in the save directory under the offered name remains in the     *)
(* destination file, which is as long as metadata.size.                     *)
(* Violated: the file is opened with write and create only.                 *)
C15_TruncateOnOffer ==
    rres = "Ok" =>
        /\ Len(dest) * Block = current_file_size
        /\ \A i \in 1..Len(dest) : dest[i] # 7

\* the receiver's registry holds a status its task has not observed yet
PausedUnseen ==
    ReceiverLive /\ transfersR[TID] = Paused /\ r_last_status # Paused
CancelledUnseen ==
    ReceiverLive /\ transfersR[TID] = Cancelled

\* the receiver failed or lost its connection
ReceiverAborted == conn = "cut" \/ rres \notin {"none", "Ok"}

(* C16  Registry observability: a Paused or Cancelled written to the        *)
(* receiver's registry for a live transfer is eventually observed by the    *)
(* receiver's poll and sent to the sender as TransferPause or               *)
(* TransferCancel, unless the entry is changed again, the sender's own      *)
(* TransferPause is read, or the transfer fails first.                      *)
(* Violated: while messages keep arriving the sleep of select! never        *)
(* completes, and the transfer runs to its acknowledgment unobserved.       *)
C16_RegistryObservability ==
    /\ PausedUnseen ~>
          (\/ HasType(rWrites, "TransferPause")
           \/ r_last_status = Paused
           \/ transfersR[TID] # Paused
           \/ ReceiverAborted)
    /\ CancelledUnseen ~>
          (\/ HasType(rWrites, "TransferCancel")
           \/ transfersR[TID] # Cancelled
           \/ ReceiverAborted)

(* C17  A TransferCancel of the receiver aborts the sender: once the        *)
(* receiver has written TransferCancel, send_file does not return Ok; and   *)
(* when the TransferCancel is on the stream to the sender, send_file        *)
(* returns an error, unless the transport is cut.                           *)
(* Violated: a sender in its pause loop reads only the registry, never the  *)
(* stream, and stays there.                                                 *)
C17_ReceiverCancelAborts ==
    /\ [](HasType(rWrites, "TransferCancel") => sres # "Ok")
    /\ HasType(r2s, "TransferCancel") ~> ((spc = "done" /\ sres # "Ok") \/ conn = "cut")

(* C18  The poll tick loses no stream data: no frame of the stream from the *)
(* sender ever loses its first bytes to a dropped read, and the receiver    *)
(* never fails to decode what the sender wrote.                             *)
(* Violated: read_message is dropped by select! when the sleep completes,   *)
(* with the bytes it had taken.                                             *)
C18_TickLosesNothing ==
    /\ ~HasType(s2r, "Garbled")
    /\ rres # "DESERIALIZE"

\* this step is a poll of the receiver that observed a change
PollObserved ==
    /\ rpc = "run"
    /\ ~RecvStep
    /\ \/ r_last_status' # r_last_status
       \/ (ReceiverWrote /\ Last(rWrites').type \in ControlTypes)

(* C19  Receiver local-status mirroring: a poll emits only when an offer    *)
(* has been accepted and the registry value differs from the last observed  *)
(* one; then Cancelled makes it write TransferCancel and fail CANCELLED, a  *)
(* change to Paused makes it write one TransferPause, a change from Paused  *)
(* to InProgress one TransferResume, and the value becomes the last         *)
(* observed one.  No other receiver step writes a control message.          *)
C19_ReceiverMirroring ==
    /\ [][PollObserved
          => LET status == GetStatus(transfersR, current_transfer_id)
                 ctl(t) == Control(t, current_transfer_id)
             IN /\ current_transfer_id # NoId
                /\ status # r_last_status
                /\ status \in {Cancelled, Paused, InProgress}
                /\ status = Cancelled =>
                      /\ rWrites' = Append(rWrites, ctl("TransferCancel"))
                      /\ rpc' = "done"
                      /\ rres' = "CANCELLED"
                /\ status = Paused =>
                      /\ rWrites' = Append(rWrites, ctl("TransferPause"))
                      /\ r_last_status' = Paused
                      /\ rpc' = "run"
                /\ status = InProgress =>
                      /\ r_last_status = Paused
                      /\ rWrites' = Append(rWrites, ctl("TransferResume"))
                      /\ r_last_status' = InProgress
                      /\ rpc' = "run"]_vars
    /\ [][(rWrites' # rWrites /\ Last(rWrites').type \in ControlTypes)
          => (ReceiverWrote /\ PollObserved)]_vars
    /\ [](rres = "CANCELLED" => (rWrites # <<>> /\ Last(rWrites) = TheCancel))

\* a local pause was mirrored, then a local cancel
C19_Witness ==
    /\ rres = "CANCELLED"
    /\ Len(rWrites) = 2
    /\ rWrites[1] = Control("TransferPause", TID)
    /\ rWrites[2] = TheCancel

(* C20  The receiver mirrors the sender's control messages: reading         *)
(* TransferPause leaves the entry of the current transfer Paused, reading   *)
(* TransferResume leaves it InProgress, reading TransferCancel leaves it    *)
(* Cancelled and ends handle_transfer with CANCELLED_BY_PEER; after that no *)
(* chunk is written and no ack is sent.                                     *)
C20_MirrorsSender ==
    /\ [][(RecvStep /\ Head(s2r).type = "TransferPause")
          => (/\ transfersR'[current_transfer_id] = Paused
              /\ rpc' = "run"
              /\ UNCHANGED <<dest, bytes_received, rWrites>>)]_vars
    /\ [][(RecvStep /\ Head(s2r).type = "TransferResume")
          => (/\ transfersR'[current_transfer_id] = InProgress
              /\ rpc' = "run"
              /\ UNCHANGED <<dest, bytes_received, rWrites>>)]_vars
    /\ [][(RecvStep /\ Head(s2r).type = "TransferCancel")
          => (/\ transfersR'[current_transfer_id] = Cancelled
              /\ rpc' = "done"
              /\ rres' = "CANCELLED_BY_PEER"
              /\ UNCHANGED <<dest, bytes_received, rWrites>>)]_vars
    /\ [][rres = "CANCELLED_BY_PEER"
          => UNCHANGED <<rpc, rres, dest, wpos, bytes_received, rWrites>>]_vars
    /\ [](rres = "CANCELLED_BY_PEER" => ~HasType(rWrites, "TransferCompleteAck"))

\* the sender paused, resumed and cancelled after a chunk had been written
C20_Witness ==
    /\ rres = "CANCELLED_BY_PEER"
    /\ transfersR[TID] = Cancelled
    /\ bytes_received > 0
    /\ HasType(sWrites, "TransferPause")

----------------------------------------------------------------------------
(* Registry outcomes *)

Terminal == {Cancelled, Completed}

C25_CompletedOnlyAcked ==
    (spc = "done" /\ sres # "Ok") => transfersS[TID] # Completed

(* C26  The step that ends a receiver task whose offer was accepted leaves  *)
(* the receiver-side entry of the transfer Completed if the task ends Ok,   *)
(* Cancelled if it ends on a local or peer cancel, Failed otherwise.        *)
(* Violated: the receiver inserts InProgress at the offer, Paused /         *)
(* InProgress / Cancelled in the control arms, and nothing else; Completed  *)
(* and Failed are never written on this side.                               *)
C26_ReceiverOutcome ==
    [][(rpc = "run" /\ rpc' = "done" /\ current_transfer_id = TID)
       => transfersR'[TID] =
            (CASE rres' = "Ok" -> Completed
               [] rres' \in {"CANCELLED", "CANCELLED_BY_PEER"} -> Cancelled
               [] OTHER -> Failed)]_vars

----------------------------------------------------------------------------
(* Pause and resume on the wire *)

IsPauseOrResume(m) == m.type \in {"TransferPause", "TransferResume"}

\* the TransferPause and TransferResume the sender has written, in order
PauseResumeLog == SelectSeq(sWrites, IsPauseOrResume)

(* C24  In the control messages the sender writes for one transfer,         *)
(* TransferPause and TransferResume strictly alternate, starting with       *)
(* TransferPause; a round of the pause loop that reads Cancelled writes     *)
(* TransferCancel and no TransferResume, and nothing is written after it.   *)
C24_PauseResumeAlternate ==
    /\ [](\A i \in 1..Len(PauseResumeLog) :
            PauseResumeLog[i].type =
              (IF i % 2 = 1 THEN "TransferPause" ELSE "TransferResume"))
    /\ [][(spc = "paused" /\ GetStatus(transfersS, TID) = Cancelled /\ spc' # "paused")
          => (/\ sWrites' = Append(sWrites, TheCancel)
              /\ sres' = "CANCELLED")]_vars
    /\ [][HasType(sWrites, "TransferCancel") => sWrites' = sWrites]_vars

\* a pause that ended in a resume, and the transfer then ran to its end
C24_Witness ==
    /\ Len(PauseResumeLog) = 2
    /\ s_last_status = InProgress
    /\ sres = "Ok"
    /\ total_sent = file_size
    /\ file_size > 0

----------------------------------------------------------------------------
(* The TransferComplete arm of the receiver *)

\* place of an operation in the order flush, history, ack, finish, close
Rank(op) ==
    CASE op = "flush" -> 1
      [] op = "history" -> 2
      [] op = "ack" -> 3
      [] op = "finish" -> 4
      [] op = "close" -> 5

DidOp(op) == \E i \in 1..Len(rEffects) : rEffects[i].op = op

(* C28  On TransferComplete the receiver flushes the file, updates the      *)
(* history entry to completed with bytes equal to the offered file size,    *)
(* writes TransferCompleteAck, finishes its outbound half and then closes   *)
(* the connection, in this order: the ack is not written before the flush,  *)
(* and the connection is not closed before the ack was written.             *)
C28_CompleteOrder ==
    /\ [](\A i, j \in 1..Len(rEffects) :
            i < j => Rank(rEffects[i].op) < Rank(rEffects[j].op))
    /\ [](\A i \in 1..Len(rEffects) :
            rEffects[i].op = "history"
              => /\ rEffects[i].status = "completed"
                 /\ rEffects[i].bytes = current_file_size)
    /\ [](DidOp("close") => DidOp("finish") /\ DidOp("ack"))
    /\ [](DidOp("ack") <=> HasType(rWrites, "TransferCompleteAck"))
    /\ [](DidOp("ack") => DidOp("history"))
    /\ [](rres = "Ok" => DidOp("close"))
    /\ [][(RecvStep /\ Head(s2r).type = "TransferComplete")
          => (/\ file => rEffects'[1].op = "flush"
              /\ histR' = "completed"
              /\ DidOp("ack")')]_vars

\* a file of two blocks was received, flushed, recorded, acknowledged and
\* the connection closed by the receiver
C28_Witness ==
    /\ Len(rEffects) = 5
    /\ rEffects[2].bytes = 2 * Block
    /\ bytes_received = 2 * Block
    /\ conn = "closedR"
    /\ rres = "Ok"

----------------------------------------------------------------------------
(* Partial files *)

\* the receiver task ends with an error after it accepted the offer
ReceiverAbortStep ==
    /\ rpc = "run"
    /\ rpc' = "done"
    /\ rres' # "Ok"
    /\ current_transfer_id = TID

\* the bytes written since the offer are in the file, from its start
WrittenStays ==
    /\ Len(dest) >= Len(accepted)
    /\ \A i \in 1..Len(accepted) : dest[i] = accepted[i]

(* C29  No rollback: the step in which the receiver aborts after accepting  *)
(* an offer (chunk hash mismatch, cancel by peer, local cancel, stream      *)
(* error) leaves the destination file and its content as they were, no      *)
(* later step changes them, and every byte written before the abort is      *)
(* still in the file.                                                       *)
C29_NoRollback ==
    /\ [][ReceiverAbortStep => (dest' = dest /\ destExists' = destExists)]_vars
    /\ [][rpc = "done" => UNCHANGED <<dest, destExists>>]_vars
    /\ []((rpc = "done" /\ rres # "Ok" /\ current_transfer_id = TID)
            => (destExists /\ WrittenStays))

\* the first block was written, the second was refused, the first is there
C29_Witness ==
    /\ rpc = "done"
    /\ rres = "CHUNK_HASH"
    /\ accepted = <<1>>
    /\ dest # <<>>
    /\ dest[1] = 1

----------------------------------------------------------------------------
(* Mirrored control messages are not sent back *)

\* this step appends a TransferPause or TransferResume to the receiver's writes
ReceiverWritesPauseOrResume ==
    /\ Len(rWrites') = Len(rWrites) + 1
    /\ IsPauseOrResume(Last(rWrites'))

(* C30  No echo: reading TransferPause or TransferResume leaves last_status *)
(* equal to the registry value it has just mirrored; from then on, as long  *)
(* as no command changes the registry, the two stay equal and no step of    *)
(* the receiver writes TransferPause or TransferResume.                     *)
C30_NoEcho ==
    /\ [][(RecvStep /\ IsPauseOrResume(Head(s2r)) /\ current_transfer_id = TID)
          => (/\ r_last_status' = transfersR'[TID]
              /\ rWrites' = rWrites)]_vars
    /\ [][(/\ rpc = "run"
           /\ current_transfer_id = TID
           /\ r_last_status = transfersR[TID]
           /\ cmds' = cmds)
          => (/\ ~ReceiverWritesPauseOrResume
              /\ rpc' = "run" => r_last_status' = transfersR'[TID])]_vars

\* the receiver has mirrored a TransferPause and then a TransferResume of the
\* sender and has written nothing
C30_Witness ==
    /\ rpc = "run"
    /\ HasType(sWrites, "TransferResume")
    /\ ~HasType(s2r, "TransferResume")
    /\ conn = "up"
    /\ transfersR[TID] = InProgress
    /\ r_last_status = InProgress
    /\ rWrites = <<>>

----------------------------------------------------------------------------
(* The completion wait *)

\* this step of the wait takes the head of the peer's messages
AckReads == aRes = "waiting" /\ aInbox # <<>> /\ aInbox' = Tail(aInbox)

(* C22  Completion-ack window: a TransferCompleteAck with the sender's own  *)
(* transfer_id is the only message that makes send_file succeed; a          *)
(* HistorySync is stored in the history (every record's row takes the       *)
(* record's status, other rows stay) and the sender keeps waiting; any      *)
(* other message, a TransferCompleteAck with another id included, ends      *)
(* send_file with PROTOCOL.                                                 *)
C22_AckWindow ==
    /\ [][AckReads =>
            LET msg == Head(aInbox)
            IN CASE msg = TheAck -> aRes' = "Ok" /\ aSynced' = aSynced
                 [] msg.type = "HistorySync" ->
                      /\ aRes' = "waiting"
                      /\ \A i \in 1..Len(msg.records) :
                           aSynced'[msg.records[i].id] = msg.records[i].status
                      /\ \A id \in HistIds :
                           (\A i \in 1..Len(msg.records) : msg.records[i].id # id)
                             => aSynced'[id] = aSynced[id]
                 [] OTHER -> aRes' = "PROTOCOL" /\ aSynced' = aSynced]_vars
    /\ [][(aRes # "Ok" /\ aRes' = "Ok") => (aInbox # <<>> /\ Head(aInbox) = TheAck)]_vars
    /\ [][aRes # "waiting" => UNCHANGED <<aRes, aInbox, aSynced>>]_vars

\* two HistorySync were stored and the ack then read
C22_Witness ==
    /\ aRes = "Ok"
    /\ aSynced["h1"] = "failed"
    /\ aSynced["h2"] = "completed"
    /\ aInbox = <<>>

(* C23  The wait has a total budget of 30 s from the closing of the write   *)
(* half: once more than 30 s have passed without the matching ack having    *)
(* been read, send_file has failed with ACK_TIMEOUT, however many           *)
(* HistorySync arrived.                                                     *)
(* Violated: the timeout is that of one read_message; every HistorySync     *)
(* read starts a new one of 30 s.                                           *)
C23_TotalBudget ==
    aTotal > ACK_TIMEOUT_SECS => aRes \notin {"waiting", "Ok"}

----------------------------------------------------------------------------
(* A receiver and any peer *)

(* C27  The receiver writes TransferCompleteAck for a transfer_id only if   *)
(* it has accepted a FileOffer with that transfer_id before on the stream;  *)
(* a TransferComplete or ChunkData read before any offer produces no ack,   *)
(* no file write and no change of bytes_received.                           *)
(* Violated: the TransferComplete arm tests neither that an offer was       *)
(* accepted nor that the id is the offered one, and acknowledges the id of  *)
(* the message.                                                             *)
C27_AckOnlyAfterOffer ==
    /\ \A i \in 1..Len(rWrites) :
         rWrites[i].type = "TransferCompleteAck"
           => (current_transfer_id # NoId /\ rWrites[i].transfer_id = current_transfer_id)
    /\ current_transfer_id = NoId
         => (dest = <<>> /\ ~destExists /\ bytes_received = 0)

----------------------------------------------------------------------------
(* Progress events of the sender *)

IsChunk(m) == m.type = "ChunkData"

\* the ChunkData the sender has written, in order
ChunksWritten == SelectSeq(sWrites, IsChunk)

\* payload bytes of the first k ChunkData written
RECURSIVE PayloadBytes(_)
PayloadBytes(k) ==
    IF k = 0 THEN 0 ELSE PayloadBytes(k - 1) + Len(ChunksWritten[k].data) * Block

IsInProgress(e) == e.status = "in_progress"
IsCompleted(e) == e.status = "completed"

\* the events of either status, in order
ProgressLog == SelectSeq(sEvents, IsInProgress)
CompletedLog == SelectSeq(sEvents, IsCompleted)

(* C34  Sender progress events: every ChunkData written is followed by one  *)
(* 'in_progress' event whose bytes_sent is the running total of payload     *)
(* bytes, so bytes_sent strictly increases and never exceeds total_bytes;   *)
(* there is at most one 'completed' event, it is the last event, carries    *)
(* bytes_sent = total_bytes, is emitted only after the matching ack was     *)
(* read and never when send_file fails.                                     *)
C34_ProgressEvents ==
    /\ [](Len(ProgressLog) \in {Len(ChunksWritten), Len(ChunksWritten) - 1})
    /\ [](Len(ProgressLog) # Len(ChunksWritten) => (spc = "done" /\ sres = "IO"))
    /\ [](\A i \in 1..Len(ProgressLog) :
            /\ ProgressLog[i].bytes_sent = PayloadBytes(i)
            /\ ProgressLog[i].bytes_sent <= ProgressLog[i].total_bytes
            /\ ProgressLog[i].total_bytes = file_size
            /\ i > 1 => ProgressLog[i - 1].bytes_sent < ProgressLog[i].bytes_sent)
    /\ [](Len(CompletedLog) <= 1)
    /\ [](CompletedLog # <<>>
            => /\ Last(sEvents) = TransferProgress(file_size, file_size, "completed")
               /\ ackRead
               /\ sres = "Ok")
    /\ [](sres = "Ok" => CompletedLog # <<>>)
    /\ [][(ChunkEmitted /\ spc' # "done")
            => (/\ Len(sEvents') = Len(sEvents) + 1
                /\ Last(sEvents').status = "in_progress")]_vars

\* two chunks, two 'in_progress' events, the ack, then 'completed'
C34_Witness ==
    /\ Len(sEvents) = 3
    /\ sEvents[1].bytes_sent = Block
    /\ sEvents[2].bytes_sent = 2 * Block
    /\ sEvents[3].status = "completed"
    /\ sres = "Ok"

----------------------------------------------------------------------------
(* Termination *)

(* C35  Termination: if the connection is made and never cut, the peer      *)
(* answers within the ack timeout, no chunk is damaged, the entry of the    *)
(* transfer is never Cancelled on either side and is not Paused for ever,   *)
(* then eventually the receiver has written the ack, both  *)
(* tasks have ended and send_file has returned Ok.                          *)
(* Violated: a TransferPause or TransferResume that the receiver wrote      *)
(* after a local pause is read by the sender in its completion wait and     *)
(* ends send_file with PROTOCOL, and a poll that interrupts a read ends the *)
(* receiver with DESERIALIZE.                                               *)
C35_Termination ==
    (/\ [](conn # "cut")
     /\ [](sres \notin {"CONNECT", "ACK_TIMEOUT"})
     /\ [](~corrupted)
     /\ [](transfersS[TID] # Cancelled /\ transfersR[TID] # Cancelled)
     /\ <>[](transfersS[TID] # Paused /\ transfersR[TID] # Paused))
    => <>(sres = "Ok" /\ rres = "Ok" /\ HasType(rWrites, "TransferCompleteAck"))

----------------------------------------------------------------------------
(* The registry of one process *)

Present(registry) == {k \in Keys : registry[k] # Absent}

(* C31  Registry entry lifecycle: the send_file command inserts the id of   *)
(* the transfer as InProgress, the receiver inserts the id of the offer it  *)
(* accepts as InProgress, and no step removes an entry: the set of ids in   *)
(* the registry only grows.                                                 *)
C31_RegistryGrows ==
    /\ [][Present(transfers) \subseteq Present(transfers')]_vars
    /\ [][regLast'.op \in {"send_file", "offer"}
          => (/\ transfers'[regLast'.id] = InProgress
              /\ Present(transfers') = Present(transfers) \cup {regLast'.id})]_vars

\* both ids are in the registry, one finished and one cancelled, after a
\* send_file and an offer
C31_Witness ==
    /\ Present(transfers) = RegIds
    /\ transfers[TID] = Completed
    /\ transfers[OtherId] = Cancelled
    /\ regSending = {}
    /\ ~regRecvRun

(* C32  Transfers are isolated in the registry: a step of a sender or       *)
(* receiver task changes at most the entry under the id of its own          *)
(* transfer (for the receiver its current_transfer_id), a command at most   *)
(* the entry of the id it was given; every other entry stays as it was.     *)
C32_Isolation ==
    [][\A k \in Keys : k # regLast'.id => transfers'[k] = transfers[k]]_vars

\* a sender marked its transfer Completed while another transfer was Paused
C32_Witness ==
    /\ regLast = Op("eof", TID, "none")
    /\ transfers[TID] = Completed
    /\ transfers[OtherId] = Paused

(* C33  pause_transfer, resume_transfer and cancel_transfer with an id that *)
(* has no entry return 'Transfer not found' and leave the registry as it    *)
(* was; with a known id they set the entry to Paused, InProgress and        *)
(* Cancelled and return Ok.                                                 *)
C33_Commands ==
    [][regLast'.op \in DOMAIN CommandNames
       => IF transfers[regLast'.id] = Absent
          THEN /\ regLast'.ret = "Transfer not found"
               /\ transfers' = transfers
          ELSE /\ regLast'.ret = "Ok"
               /\ transfers' = [transfers EXCEPT ![regLast'.id] = CommandNames[regLast'.op]]]_vars

\* a command for an unknown id was refused while another transfer was known
C33_Witness ==
    /\ regLast.op = "cancel_transfer"
    /\ regLast.ret = "Transfer not found"
    /\ transfers[regLast.id] = Absent
    /\ Present(transfers) # {}

----------------------------------------------------------------------------
(* Framing *)

\* everything written has been delivered and read
AllRead == fNext > Len(fMsgs) /\ fWire = <<>> /\ fBuf = <<>>

(* C36  Framing round trip: write_message puts the length of the payload as *)
(* four bytes, most significant first, and then exactly the payload on the  *)
(* stream; read_message reads four bytes and then as many as they say. The  *)
(* read_message calls return the messages written, in the order written,    *)
(* in whatever pieces the stream delivers the bytes: what has been returned *)
(* is always a prefix of what was written, and it is all of it once every   *)
(* byte has been read.                                                      *)
C36_FramingRoundTrip ==
    /\ [][fNext' = fNext + 1
          => LET data == fMsgs[fNext]
             IN /\ Len(fWire') = Len(fWire) + 4 + Len(data)
                /\ SubSeq(fWire', Len(fWire) + 1, Len(fWire) + 4) = ToBe(Len(data))
                /\ FromBe(ToBe(Len(data))) = Len(data)
                /\ SubSeq(fWire', Len(fWire) + 5, Len(fWire')) = data]_vars
    /\ [](Len(fOut) < fNext)
    /\ [](\A i \in 1..Len(fOut) : fOut[i] = fMsgs[i])
    /\ [](fPhase = "len" => fNeed = 4)
    /\ [](AllRead => fOut = fMsgs)

\* two messages, the second with a two-byte length, came out as written
\* although a read found fewer bytes than it needed
C36_Witness ==
    /\ AllRead
    /\ fOut = <<Payload(3, 13), Payload(257, 14)>>
    /\ fShort

----------------------------------------------------------------------------
(* Listener *)

\* the tasks that exist
Spawned == {i \in Conns : lTask[i] # "none"}

\* the state a receiver task keeps for itself
TaskState(i) == <<lTask[i], lName[i]>>

(* C37  The listener accepts connections indefinitely and spawns one        *)
(* receiver task per accepted connection: the accept loop is never stopped, *)
(* whatever the handshakes and the receivers end with; there is one task    *)
(* per accepted connection and an accept adds exactly one; a step of one    *)
(* task leaves the position and the locals of every other task as they      *)
(* are, and a running receiver can always take its next step and return,    *)
(* whatever the other tasks are doing.                                      *)
C37_Listener ==
    /\ [](lLoop = "accepting")
    /\ [](Spawned = 1..lAccepted)
    /\ [][lAccepted' # lAccepted
          => /\ lAccepted' = lAccepted + 1
             /\ lTask' = [lTask EXCEPT ![lAccepted'] = "connecting"]]_vars
    /\ [][\A i, j \in Conns :
            i # j /\ TaskState(i)' # TaskState(i) => TaskState(j)' = TaskState(j)]_vars
    /\ [](\A i \in Conns :
            lTask[i] = "receiving"
            => ENABLED ListenOffer(i) /\ ENABLED ListenReturns(i))

\* a handshake has failed, a receiver has ended with an error, and a later
\* connection was accepted and its receiver is writing the file of the same
\* name
C37_Witness ==
    /\ lTask[1] = "handshake_failed"
    /\ lTask[2] = "receive_failed"
    /\ lTask[3] = "receiving"
    /\ lName[3] # ""
    /\ lName[3] = lName[2]
    /\ lDir[lName[3]] = 3

----------------------------------------------------------------------------
(* Discovery *)

\* the ids in the table
Stored == DOMAIN devices

\* a ServiceResolved event for a device other than the local one
ResolvedEvent(last) ==
    last.op \in {"resolved", "resolved_unreceived"} /\ last.id # OwnId

(* C38  Staleness eviction: a cleanup pass removes exactly the entries that *)
(* were last seen 300 s ago or longer and leaves the others as they are; a  *)
(* ServiceResolved for a device puts its entry in the table with last_seen  *)
(* at the current time; the local device's own id is never in the table;    *)
(* so after a pass no entry is 300 s old or older.                          *)
C38_StaleEviction ==
    /\ [][dLast'.op = "cleanup"
          => /\ DOMAIN devices' = {id \in Stored : dNow' - devices[id].last_seen < 300}
             /\ \A id \in DOMAIN devices' : devices'[id] = devices[id]]_vars
    /\ [][ResolvedEvent(dLast')
          => /\ dLast'.id \in DOMAIN devices'
             /\ devices'[dLast'.id].last_seen = dNow]_vars
    /\ [](OwnId \notin Stored)
    /\ [](\A id \in Stored : dNow - devices[id].last_seen < 300)

\* the probe of the address succeeds
Reachable(ip) == TestConnectivity(ip, rUp)

\* places in all_ips of the reachable addresses other than the primary
ReachableOthers ==
    {i \in DOMAIN rDevice.all_ips :
        rDevice.all_ips[i] # rDevice.ip /\ Reachable(rDevice.all_ips[i])}

(* C39  find_reachable_ip returns the primary ip when the primary is        *)
(* reachable, otherwise the first address of all_ips, in list order, that   *)
(* is not the primary and is reachable, and none exactly when neither the   *)
(* primary nor any address of the list is reachable.                        *)
C39_FindReachableIp ==
    rPc = "done"
    => /\ Reachable(rDevice.ip) => rResult = SomeIp(rDevice.ip)
       /\ ~Reachable(rDevice.ip) /\ ReachableOthers # {}
          => /\ rResult.some
             /\ \E i \in ReachableOthers :
                  /\ rResult.ip = rDevice.all_ips[i]
                  /\ \A j \in ReachableOthers : i <= j
       /\ rResult = NoIp <=> ~Reachable(rDevice.ip) /\ ReachableOthers = {}

\* the primary and the first other address failed the probe and the second
\* other address was returned
C39_Witness ==
    /\ rPc = "done"
    /\ rDevice = [ip |-> "fe80::1", all_ips |-> <<"192.168.1.5", "fe80::1", "10.0.0.7">>]
    /\ rUp = {"fe80::1", "10.0.0.7"}
    /\ rResult = SomeIp("10.0.0.7")

(* C40  The discovery event loop never stops on an event: every id in the   *)
(* table of discovered devices has at least 8 characters, the fallback id   *)
(* included, so that handling ServiceRemoved never fails and the loop keeps *)
(* running; and a ServiceRemoved removes at most one device and leaves the  *)
(* others in the table as they are.                                         *)
C40_LoopNeverStops ==
    /\ [](\A id \in Stored : Len(id) >= 8)
    /\ [](dLoop = "running")
    /\ [][dLast'.op \in {"removed", "panic"}
          => /\ DOMAIN devices' \subseteq Stored
             /\ Cardinality(Stored \ DOMAIN devices') <= 1
             /\ \A id \in DOMAIN devices' : devices'[id] = devices[id]]_vars

====
